---- MODULE Spec2Model ----
(***************************************************************************)
(* Model of the match acquisition of the Eyes SDK core.                    *)
(*                                                                         *)
(* MatchWindowTask (match/MatchWindowTask.js): one task object with its    *)
(* fields _lastScreenshot, _lastScreenshotBounds, _matchResult and         *)
(* _defaultRetryTimeout; a wall clock; and, per matchWindow invocation,    *)
(* the position in the promise chain, the arguments, the parameters of the *)
(* current _takingScreenshotLoop call and a log of what the invocation did *)
(* (specification Spec; SpecOverlap for two invocations that overlap).     *)
(*                                                                         *)
(* EyesBase (EyesBase.js): one object with its fields, its user inputs and *)
(* the operation in progress; open, check, triggers, close and abort are   *)
(* called one after the other (specification SpecEyes).                    *)
(*                                                                         *)
(* Location (positioning/Location.js): a receiver and the result of the    *)
(* last call on it (specification SpecLocation).                           *)
(*                                                                         *)
(* performMatch (match/MatchWindowTask.js): one call with the region       *)
(* containers of its check settings, each resolved by a promise of its own *)
(* (specification SpecRegions).                                            *)
(*                                                                         *)
(* Delta compression (EyesBase._getAppOutputWithScreenshot and the codec   *)
(* of section 4.2 of the specification): one screenshot compressed against *)
(* another and decoded (specification SpecCodec).                          *)
(***************************************************************************)
EXTENDS Integers, Sequences, FiniteSets, TLC

\* ---------------------------------------------------------------- bounds
\* Number of matchWindow invocations made on the task in one behaviour.
MaxCalls == 2
\* A wall-clock reading of the order of Date.now() (far above any elapsed time).
Epoch == 1000000

\* ------------------------------------------------------------- constants
MATCH_INTERVAL == 500
\* Stand-in for Number.MAX_VALUE (the "infinite" image size).
MAX_VALUE == 2147483647
\* EyesBase: this._matchTimeout, the retry timeout its MatchWindowTask gets.
DEFAULT_MATCH_TIMEOUT == 2000
\* EyesBase: the matchWindow timeout that stands for "use the default".
USE_DEFAULT_TIMEOUT == -1

\* Number of EyesBase operations called in one behaviour.
MaxOps == 4
\* Largest coordinate of a Location under test.
MaxCoord == 3
\* Largest number of ignore-region and of floating-region descriptors of a check.
MaxRegions == 2

\* ---------------------------------------------------------------- inputs
Invs == {1, 2}
\* Invocations the caller makes one after the other (never overlapping).
Callers == {1}
\* Readings of the clock when the task is constructed.
ClockStarts == {0, Epoch}
\* retryTimeout given to the constructor (ArgumentGuard: >= 0).
DefaultRetryTimeouts == {0, 1200}
\* retryTimeout argument of matchWindow; -1 is USE_DEFAULT_TIMEOUT, -5 is a
\* negative value that is not the sentinel.
RetryTimeouts == {-5, USE_DEFAULT_TIMEOUT, 0, 500, 1200}
\* Duration of one capture + match round trip.
Durations == {100, 700}
\* Size of a captured screenshot's image.
ImageWidth == 8
ImageHeight == 6

MkRegion(l, t, w, h) == [left |-> l, top |-> t, width |-> w, height |-> h]
EmptyRegion == MkRegion(0, 0, 0, 0)
\* undefined, for a field that holds a Region
NoRegion == MkRegion(-1, -1, -1, -1)
Regions == {EmptyRegion, MkRegion(1, 2, 3, 4)}

\* Region.isEmpty()
IsEmpty(region) == region.width = 0 /\ region.height = 0

\* An EyesScreenshot: the one captured by the n-th attempt of invocation call.
MkScreenshot(c, n, w, h) == [call |-> c, n |-> n, w |-> w, h |-> h]
\* undefined, for a value that holds a screenshot
NoScreenshot == MkScreenshot(0, 0, 0, 0)
IsScreenshot(s) == s.n # 0

\* A MatchResult: the server's verdict on the n-th attempt of invocation call.
MkResult(c, n, a) == [call |-> c, n |-> n, asExpected |-> a]
\* undefined, for a value that holds a MatchResult
NoResult == MkResult(0, 0, FALSE)
IsResult(r) == r.n # 0

\* JavaScript values held by the parameters of _takingScreenshotLoop.
Num(v) == [k |-> "number", v |-> v]
Obj(kind) == [k |-> kind, v |-> 0]
\* a >= b on JavaScript values: false unless both are numbers
\* (objects, undefined and NaN compare false).
GE(a, b) == a.k = "number" /\ b.k = "number" /\ a.v >= b.v
\* a - b on JavaScript values: NaN unless both are numbers.
Minus(a, b) == IF a.k = "number" /\ b.k = "number" THEN Num(a.v - b.v) ELSE Obj("NaN")
\* The value of a screenshot variable as loop parameter.
ScreenshotValue(s) == IF IsScreenshot(s) THEN Obj("EyesScreenshot") ELSE Obj("undefined")

\* One entry of an invocation's log: a "sleep" of ms milliseconds, a
\* "capture" or "match" request with its ignoreMismatch flag, the server's
\* "verdict" (flag: asExpected; ms: duration of the attempt), or a "fail".
Ev(e, ph, ms, flag, err) == [e |-> e, ph |-> ph, ms |-> ms, flag |-> flag, err |-> err]

VARIABLES
    now,                    \* GeneralUtils.currentTimeMillis()
    defaultRetryTimeout,    \* this._defaultRetryTimeout
    lastScreenshot,         \* this._lastScreenshot
    lastScreenshotBounds,   \* this._lastScreenshotBounds
    matchResult,            \* this._matchResult
    calls,                  \* number of invocations made so far
    pc,                     \* per invocation: position in the promise chain
    args,                   \* per invocation: arguments of matchWindow
    retryStart,             \* per invocation: const start of _retryTakingScreenshot
    loop,                   \* per invocation: parameters of the current _takingScreenshotLoop call
    att,                    \* per invocation: the attempt in progress
    held,                   \* per invocation: the screenshot the chain resolves with
    outcome,                \* per invocation: value or error the promise settled with
    pre,                    \* per invocation: the task's fields when matchWindow was called
    log,                    \* per invocation: sleeps, capture and match requests, answers
    eyes,                   \* the fields of the EyesBase object
    userInputs,             \* this._userInputs
    epc,                    \* what the EyesBase operation in progress waits for
    ecall,                  \* the EyesBase operation called last, with the state it found
    eout,                   \* how that operation returned or its promise settled
    srv,                    \* collaborator calls made by that operation
    ops,                    \* number of EyesBase operations called so far
    sess,                   \* what the checks of the running session handed to the task
    loc,                    \* a Location object (the receiver)
    locRes,                 \* the Location returned by the last call on it
    locCall,                \* that call
    pm,                     \* one performMatch call: its region descriptors and requests
    cdc                     \* one compression of a screenshot and the decoding of its payload

taskVars == <<now, defaultRetryTimeout, lastScreenshot, lastScreenshotBounds, matchResult,
              calls, pc, args, retryStart, loop, att, held, outcome, pre, log>>
eyesVars == <<eyes, userInputs, epc, ecall, eout, srv, ops, sess>>
locVars == <<loc, locRes, locCall>>
pmVars == <<pm>>
codecVars == <<cdc>>
restVars == <<pmVars, codecVars>>
notTaskVars == <<eyesVars, locVars, restVars>>
vars == <<taskVars, eyesVars, locVars, restVars>>

NoArgs == [call |-> 0, region |-> EmptyRegion, shouldRunOnceOnTimeout |-> FALSE, ignoreMismatch |-> FALSE,
           given |-> 0, retryTimeout |-> 0]
NoLoop == [checkSettings |-> Obj("undefined"), imageMatchSettings |-> Obj("undefined"),
           retryTimeout |-> Obj("undefined"), retry |-> Obj("undefined"),
           start |-> Obj("undefined"), screenshot |-> Obj("undefined")]
NoAtt == [ph |-> "none", ignoreMismatch |-> FALSE, checkSettings |-> Obj("undefined"),
          imageMatchSettings |-> Obj("undefined"), compress |-> "none", buffer |-> "none"]
NoOutcome == [kind |-> "none", result |-> NoResult]
NoPre == [lastScreenshot |-> NoScreenshot, lastScreenshotBounds |-> NoRegion]

\* A Location.
MkLocation(x, y) == [x |-> x, y |-> y]
\* Location.ZERO
ZERO == MkLocation(0, 0)

\* undefined, for a value that holds TestResults
NoResults == [status |-> "none", isNew |-> FALSE]
\* new TestResults()
EmptyResults == [status |-> "empty", isNew |-> FALSE]

\* The EyesBase constructor.  With isDisabled it returns right after
\* this._userInputs = null: no logger, promise factory or server connector.
NewEyes(isDisabled, saveNewTests, saveFailedTests, failureReports) ==
    [initialised     |-> ~isDisabled,
     isDisabled      |-> isDisabled,
     isOpen          |-> FALSE,
     runningSession  |-> "none",
     matchWindowTask |-> FALSE,
     autSessionId    |-> FALSE,
     shouldMatchWindowRunOnceOnTimeout |-> FALSE,
     saveNewTests    |-> saveNewTests,
     saveFailedTests |-> saveFailedTests,
     failureReports  |-> failureReports]

NoCall == [op |-> "none", disabled |-> FALSE, wasOpen |-> FALSE, session |-> "none",
           throwEx |-> FALSE, isAborted |-> FALSE, ignoreMismatch |-> FALSE,
           region |-> EmptyRegion, control |-> NoRegion, cursor |-> ZERO,
           lookup |-> "none", looked |-> ZERO, inputs |-> <<>>,
           screenshot |-> NoScreenshot]
\* Nothing handed to the task yet, no check of the session mismatched; and
\* the record of the test since its openBase: the startSession calls made,
\* the running sessions they gave, the MatchWindowTasks constructed, the
\* session the task was constructed with, the sessions match requests were
\* sent with; and whether a check that was not ignored has completed since
\* the task was constructed.
NoSess == [runOnce |-> FALSE, inputs |-> <<>>, mismatch |-> FALSE,
           starts |-> 0, sessions |-> 0, tasks |-> 0, task |-> 0, sent |-> {},
           checked |-> FALSE]
NoOut == [kind |-> "none", value |-> "undefined", results |-> NoResults, asExpected |-> FALSE]

\* The task on its own: a default EyesBase that is never used.
EyesUnused ==
    /\ eyes = NewEyes(FALSE, TRUE, FALSE, "ON_CLOSE")
    /\ userInputs = <<>>
    /\ epc = "idle"
    /\ ecall = NoCall
    /\ eout = NoOut
    /\ srv = <<>>
    /\ ops = 0
    /\ sess = NoSess

\* No performMatch call yet.
NoPm == [pc |-> "idle", ignore |-> 0, floating |-> 0, screenshot |-> 0,
         invoked |-> <<>>, pending |-> {}, resolved |-> {}, failed |-> {},
         ignoreRegions |-> <<>>, floatingRegions |-> <<>>, requests |-> 0]

\* An image: its dimensions and its raw pixel buffer (one byte per pixel).
MkImage(w, h, data) == [w |-> w, h |-> h, data |-> data]
\* Nothing compressed yet.
NoCdc == [op |-> "none", bs |-> 0, target |-> MkImage(0, 0, <<>>),
          source |-> MkImage(0, 0, <<>>),
          encoded |-> <<>>, payload |-> <<>>, saved |-> 0, message |-> "",
          decoded |-> <<>>]

\* No performMatch call and no compression under study.
RestUnused ==
    /\ pm = NoPm
    /\ cdc = NoCdc

\* No Location under test.
LocationUnused ==
    /\ loc = ZERO
    /\ locRes = ZERO
    /\ locCall = [op |-> "none", a |-> 0, b |-> 0, x |-> 0, y |-> 0]

\* A MatchWindowTask on which matchWindow was not called yet.
TaskUnused ==
    /\ lastScreenshot = NoScreenshot
    /\ lastScreenshotBounds = NoRegion
    /\ matchResult = NoResult
    /\ calls = 0
    /\ pc = [i \in Invs |-> "idle"]
    /\ args = [i \in Invs |-> NoArgs]
    /\ retryStart = [i \in Invs |-> 0]
    /\ loop = [i \in Invs |-> NoLoop]
    /\ att = [i \in Invs |-> NoAtt]
    /\ held = [i \in Invs |-> NoScreenshot]
    /\ outcome = [i \in Invs |-> NoOutcome]
    /\ pre = [i \in Invs |-> NoPre]
    /\ log = [i \in Invs |-> <<>>]

Init ==
    /\ EyesUnused
    /\ LocationUnused
    /\ RestUnused
    /\ now \in ClockStarts
    /\ defaultRetryTimeout \in DefaultRetryTimeouts
    /\ TaskUnused

\* ------------------------------------------------------------ operations

\* Variant: only the sentinel stands for the default.
EffectiveRetryTimeout_SentinelOnly(retryTimeout, default) ==
    IF retryTimeout = USE_DEFAULT_TIMEOUT THEN default ELSE retryTimeout

\* matchWindow: a missing or negative retryTimeout means the default.
EffectiveRetryTimeout(retryTimeout, default) ==
    IF retryTimeout < 0 THEN default ELSE retryTimeout

\* Variant: only run-once takes the single-attempt path.
IsSingleAttempt_RunOnceOnly(retryTimeout, shouldRunOnceOnTimeout) ==
    shouldRunOnceOnTimeout

\* _takeScreenshot: "If the wait to load time is 0, or run once is true,
\* we perform a single check window."
IsSingleAttempt(retryTimeout, shouldRunOnceOnTimeout) ==
    retryTimeout = 0 \/ shouldRunOnceOnTimeout

\* Variant: run-once sleeps one polling interval instead of the budget.
RunOnceSleep_Interval(retryTimeout) == MATCH_INTERVAL

\* _takeScreenshot: the time slept before the single attempt of run-once.
RunOnceSleep(retryTimeout) == retryTimeout

\* Variant: polling attempts pass the caller's flag on.
PollIgnoreMismatch_Callers(ignoreMismatch) == ignoreMismatch

\* _takingScreenshotLoop: the ignoreMismatch flag of a polling attempt.
PollIgnoreMismatch(ignoreMismatch) == TRUE

\* _retryTakingScreenshot: the ignoreMismatch flag of the attempt made after the loop.
FinalIgnoreMismatch(ignoreMismatch) == ignoreMismatch

\* _takeScreenshot: the ignoreMismatch flag of the single attempt.
SingleIgnoreMismatch(ignoreMismatch) == ignoreMismatch

\* _retryTakingScreenshot: the arguments of the first _takingScreenshotLoop
\* call (nine arguments: the parameter screenshot stays undefined).
FirstLoopCall(retryTimeout, start, clock) ==
    [checkSettings      |-> Obj("CheckSettings"),
     imageMatchSettings |-> Obj("ImageMatchSettings"),
     retryTimeout       |-> Num(retryTimeout),
     retry              |-> Num(clock - start),
     start              |-> Num(start),
     screenshot         |-> Obj("undefined")]

\* _takingScreenshotLoop: the arguments of the recursive call.  The call
\* leaves out checkSettings, so every argument after ignoreMismatch lands
\* one parameter early: checkSettings <- imageMatchSettings,
\* imageMatchSettings <- retryTimeout, retryTimeout <- now - start,
\* retry <- start, start <- screenshot, screenshot <- undefined.
RecursiveLoopCall(l, shot, clock) ==
    [checkSettings      |-> l.imageMatchSettings,
     imageMatchSettings |-> l.retryTimeout,
     retryTimeout       |-> Minus(Num(clock), l.start),
     retry              |-> l.start,
     start              |-> ScreenshotValue(shot),
     screenshot         |-> Obj("undefined")]

\* _takingScreenshotLoop: if (retry >= retryTimeout) the loop is over.
LoopExpired(l) == GE(l.retry, l.retryTimeout)

\* _takingScreenshotLoop: a polling attempt that is as expected ends the loop.
PollMatched(r) == r.asExpected

\* Variant: the attempt after the loop is made whatever the stored result.
NeedsFinalAttempt_Always(r) == TRUE

\* _retryTakingScreenshot: "if we're here because we haven't found a match
\* yet, try once more".
NeedsFinalAttempt(r) == ~r.asExpected

\* Variant: the first verdict of an invocation is kept.
StoreMatchResult_KeepFirst(old, new) ==
    IF IsResult(old) /\ old.call = new.call THEN old ELSE new

\* _tryTakeScreenshot: that._matchResult = matchResult.
StoreMatchResult(old, new) == new

\* performMatch: collectIgnoreRegions / collectFloatingRegions call
\* checkSettings.getIgnoreRegions() and imageMatchSettings.setIgnoreRegions();
\* they throw a TypeError unless the two are what their names say.
SettingsUsable(a) ==
    a.checkSettings.k = "CheckSettings" /\ a.imageMatchSettings.k = "ImageMatchSettings"

\* Variant: the task's fields are updated whatever the flag.
KeepsTaskState_Never(ignoreMismatch) == FALSE

\* matchWindow: with ignoreMismatch the task's fields are left alone.
KeepsTaskState(ignoreMismatch) == ignoreMismatch

\* Variant: the retained screenshot is overwritten whatever the attempt gave.
UpdateLastScreenshot_Always(last, screenshot) == screenshot

\* _updateLastScreenshot: if (screenshot) this._lastScreenshot = screenshot.
UpdateLastScreenshot(last, screenshot) ==
    IF IsScreenshot(screenshot) THEN screenshot ELSE last

\* Variant: the bounds are those of the screenshot whenever there is one.
UpdateBounds_ScreenshotFirst(region, last) ==
    IF IsScreenshot(last)
    THEN MkRegion(0, 0, last.w, last.h)
    ELSE IF IsEmpty(region) THEN MkRegion(0, 0, MAX_VALUE, MAX_VALUE) ELSE region

\* _updateBounds (last is this._lastScreenshot after _updateLastScreenshot)
UpdateBounds(region, last) ==
    IF IsEmpty(region)
    THEN IF IsScreenshot(last)
         THEN MkRegion(0, 0, last.w, last.h)
         ELSE MkRegion(0, 0, MAX_VALUE, MAX_VALUE)
    ELSE region

\* Variant: a failure is swallowed and the invocation goes on to its end.
AfterFailure_Swallowed(ph) == "finish"

\* Variant: a failed polling attempt is retried after the next sleep.
AfterFailure_RetryPoll(ph) == IF ph = "poll" THEN "sleepPoll" ELSE "rejected"

\* What a failed capture, region resolution or match request does to the
\* invocation: nothing catches it, the promise of matchWindow rejects.
AfterFailure(ph) == "rejected"

\* Variant: the loop does not wait for the attempt before it sleeps again.
AwaitCapture_NotAwaited == "sleepPoll"

\* Where the chain waits after the capture request of an attempt was issued.
AwaitCapture == "capturing"

\* Number of entries of kind e in a log.
Count(l, e) == Cardinality({k \in 1..Len(l) : l[k].e = e})

\* _tryTakeScreenshot, first half: ask the provider for the application output.
IssueAttempt(i, ph, im, cs, ims, lg) ==
    /\ att' = [att EXCEPT ![i] = [ph |-> ph, ignoreMismatch |-> im,
                                  checkSettings |-> cs, imageMatchSettings |-> ims,
                                  compress |-> "none", buffer |-> "none"]]
    /\ log' = [log EXCEPT ![i] = Append(lg, Ev("capture", ph, 0, im, ""))]
    /\ pc' = [pc EXCEPT ![i] = AwaitCapture]

\* An error thrown or a rejection inside the chain.
Reject(i, err) ==
    /\ pc' = [pc EXCEPT ![i] = AfterFailure(att[i].ph)]
    /\ outcome' = [outcome EXCEPT ![i] = [kind |-> err, result |-> NoResult]]
    /\ log' = [log EXCEPT ![i] = Append(log[i], Ev("fail", att[i].ph, 0, att[i].ignoreMismatch, err))]

\* _takingScreenshotLoop up to its first wait: over, or sleep MATCH_INTERVAL.
EnterLoop(i, l) ==
    /\ loop' = [loop EXCEPT ![i] = l]
    /\ IF LoopExpired(l)
       THEN /\ pc' = [pc EXCEPT ![i] = "afterLoop"]
            /\ held' = [held EXCEPT ![i] = NoScreenshot]
       ELSE /\ pc' = [pc EXCEPT ![i] = "sleepPoll"]
            /\ UNCHANGED held

\* matchWindow(userInputs, region, tag, shouldRunOnceOnTimeout, ignoreMismatch,
\* checkSettings, imageMatchSettings, retryTimeout) up to its first wait.
MatchWindow(i, region, runOnce, im, rt) ==
    LET eff == EffectiveRetryTimeout(rt, defaultRetryTimeout) IN
    /\ pc[i] = "idle"
    /\ calls < MaxCalls
    /\ calls' = calls + 1
    /\ args' = [args EXCEPT ![i] = [call |-> calls + 1, region |-> region,
                                    shouldRunOnceOnTimeout |-> runOnce,
                                    ignoreMismatch |-> im, given |-> rt,
                                    retryTimeout |-> eff]]
    /\ pre' = [pre EXCEPT ![i] = [lastScreenshot |-> lastScreenshot,
                                  lastScreenshotBounds |-> lastScreenshotBounds]]
    /\ outcome' = [outcome EXCEPT ![i] = NoOutcome]
    /\ IF IsSingleAttempt(eff, runOnce)
       THEN IF runOnce
            THEN /\ pc' = [pc EXCEPT ![i] = "sleepOnce"]
                 /\ log' = [log EXCEPT ![i] = <<>>]
                 /\ att' = [att EXCEPT ![i] = NoAtt]
                 /\ UNCHANGED <<retryStart, loop, held>>
            ELSE /\ IssueAttempt(i, "single", SingleIgnoreMismatch(im),
                                 Obj("CheckSettings"), Obj("ImageMatchSettings"), <<>>)
                 /\ UNCHANGED <<retryStart, loop, held>>
       ELSE /\ retryStart' = [retryStart EXCEPT ![i] = now]
            /\ EnterLoop(i, FirstLoopCall(eff, now, now))
            /\ log' = [log EXCEPT ![i] = <<>>]
            /\ att' = [att EXCEPT ![i] = NoAtt]
    /\ UNCHANGED <<now, defaultRetryTimeout, lastScreenshot, lastScreenshotBounds, matchResult>>
    /\ UNCHANGED notTaskVars

\* GeneralUtils.sleep(retryTimeout) of run-once is over: the single attempt starts.
SleepOnceDone(i) ==
    /\ pc[i] = "sleepOnce"
    /\ now' = now + RunOnceSleep(args[i].retryTimeout)
    /\ IssueAttempt(i, "single", SingleIgnoreMismatch(args[i].ignoreMismatch),
                    Obj("CheckSettings"), Obj("ImageMatchSettings"),
                    Append(log[i], Ev("sleep", "single", RunOnceSleep(args[i].retryTimeout), FALSE, "")))
    /\ UNCHANGED <<defaultRetryTimeout, lastScreenshot, lastScreenshotBounds, matchResult,
                   calls, args, retryStart, loop, held, outcome, pre>>
    /\ UNCHANGED notTaskVars

\* GeneralUtils.sleep(MATCH_INTERVAL) of the loop is over: a polling attempt starts.
SleepPollDone(i) ==
    /\ pc[i] = "sleepPoll"
    /\ now' = now + MATCH_INTERVAL
    /\ IssueAttempt(i, "poll", PollIgnoreMismatch(args[i].ignoreMismatch),
                    loop[i].checkSettings, loop[i].imageMatchSettings,
                    Append(log[i], Ev("sleep", "poll", MATCH_INTERVAL, FALSE, "")))
    /\ UNCHANGED <<defaultRetryTimeout, lastScreenshot, lastScreenshotBounds, matchResult,
                   calls, args, retryStart, loop, held, outcome, pre>>
    /\ UNCHANGED notTaskVars

\* EyesBase._getAppOutputWithScreenshot: the compressor runs when there is a
\* new screenshot, _useImageDeltaCompression (always true) and a last screenshot.
TriesCompression(hasScreenshot, last) == hasScreenshot /\ IsScreenshot(last)

\* What ImageDeltaCompressor.compressByRawBlocks (or reading the image data
\* before it) can do: return a delta buffer, return the plain buffer, or throw.
CompressOutcomes(hasScreenshot, last) ==
    IF TriesCompression(hasScreenshot, last) THEN {"delta", "plain", "failed"} ELSE {"none"}

\* Variant: nothing catches a failure of the compressor.
OnCompressFailure_Uncaught == "rejected"

\* _getAppOutputWithScreenshot: .catch(err => log("Failed to compress
\* screenshot!", err)) and the chain goes on.
OnCompressFailure == "logged"

\* _getAppOutputWithScreenshot: the buffer of the AppOutput.  screenshotBuffer
\* is targetBuffer and is replaced only by what the compressor returned; with
\* no screenshot it stays undefined (the output carries a screenshot URL).
ScreenshotBuffer(hasScreenshot, comp) ==
    IF ~hasScreenshot THEN "none"
    ELSE IF comp = "delta" THEN "delta" ELSE "plain"

\* appOutputProvider.getAppOutput resolved: the attempt has its screenshot
\* (undefined when the SDK supplies a screenshot URL instead) and performMatch
\* starts to resolve the regions of the check settings.
CaptureDone(i, hasScreenshot, comp) ==
    /\ pc[i] = "capturing"
    /\ comp \in CompressOutcomes(hasScreenshot, lastScreenshot)
    /\ IF comp = "failed" /\ OnCompressFailure = "rejected"
       THEN /\ Reject(i, "CodecError")
            /\ UNCHANGED <<att, held>>
       ELSE /\ held' = [held EXCEPT ![i] =
                         IF hasScreenshot
                         THEN MkScreenshot(args[i].call, Count(log[i], "capture"),
                                           ImageWidth, ImageHeight)
                         ELSE NoScreenshot]
            /\ att' = [att EXCEPT ![i].compress = comp,
                                  ![i].buffer = ScreenshotBuffer(hasScreenshot, comp)]
            /\ pc' = [pc EXCEPT ![i] = "resolving"]
            /\ UNCHANGED <<outcome, log>>
    /\ UNCHANGED <<now, defaultRetryTimeout, lastScreenshot, lastScreenshotBounds, matchResult,
                   calls, args, retryStart, loop, pre>>
    /\ UNCHANGED notTaskVars

\* appOutputProvider.getAppOutput rejected.
CaptureFail(i) ==
    /\ pc[i] = "capturing"
    /\ Reject(i, "CaptureError")
    /\ UNCHANGED <<now, defaultRetryTimeout, lastScreenshot, lastScreenshotBounds, matchResult,
                   calls, args, retryStart, loop, att, held, pre>>
    /\ UNCHANGED notTaskVars

\* performMatch: collectIgnoreRegions and collectFloatingRegions are done,
\* the match data is built and serverConnector.matchWindow is called.
RegionsResolved(i) ==
    /\ pc[i] = "resolving"
    /\ IF SettingsUsable(att[i])
       THEN /\ pc' = [pc EXCEPT ![i] = "matching"]
            /\ log' = [log EXCEPT ![i] =
                         Append(log[i], Ev("match", att[i].ph, 0, att[i].ignoreMismatch, ""))]
            /\ UNCHANGED outcome
       ELSE Reject(i, "TypeError")
    /\ UNCHANGED <<now, defaultRetryTimeout, lastScreenshot, lastScreenshotBounds, matchResult,
                   calls, args, retryStart, loop, att, held, pre>>
    /\ UNCHANGED notTaskVars

\* performMatch: a region container's getRegion rejected.
RegionsFail(i) ==
    /\ pc[i] = "resolving"
    /\ Reject(i, "RegionError")
    /\ UNCHANGED <<now, defaultRetryTimeout, lastScreenshot, lastScreenshotBounds, matchResult,
                   calls, args, retryStart, loop, att, held, pre>>
    /\ UNCHANGED notTaskVars

\* _tryTakeScreenshot, second half: the server answered; the verdict is
\* stored in this._matchResult and the attempt resolves with its screenshot.
ServerRespond(i, asExpected, d) ==
    /\ pc[i] = "matching"
    /\ now' = now + d
    /\ matchResult' = StoreMatchResult(matchResult,
                         MkResult(args[i].call, Count(log[i], "match"), asExpected))
    /\ log' = [log EXCEPT ![i] = Append(log[i], Ev("verdict", att[i].ph, d, asExpected, ""))]
    /\ pc' = [pc EXCEPT ![i] = CASE att[i].ph = "poll"   -> "loopCheck"
                                 [] att[i].ph = "final"  -> "finish"
                                 [] att[i].ph = "single" -> "finish"]
    /\ UNCHANGED <<defaultRetryTimeout, lastScreenshot, lastScreenshotBounds,
                   calls, args, retryStart, loop, att, held, outcome, pre>>
    /\ UNCHANGED notTaskVars

\* serverConnector.matchWindow rejected.
ServerFail(i) ==
    /\ pc[i] = "matching"
    /\ Reject(i, "TransportError")
    /\ UNCHANGED <<now, defaultRetryTimeout, lastScreenshot, lastScreenshotBounds, matchResult,
                   calls, args, retryStart, loop, att, held, pre>>
    /\ UNCHANGED notTaskVars

\* _takingScreenshotLoop after a polling attempt: done if the stored result
\* is as expected, otherwise the recursive call.
LoopCheck(i) ==
    /\ pc[i] = "loopCheck"
    /\ IF ~IsResult(matchResult)
       THEN /\ Reject(i, "TypeError")
            /\ UNCHANGED <<loop, held>>
       ELSE IF PollMatched(matchResult)
       THEN /\ pc' = [pc EXCEPT ![i] = "afterLoop"]
            /\ UNCHANGED <<loop, held, outcome, log>>
       ELSE /\ EnterLoop(i, RecursiveLoopCall(loop[i], held[i], now))
            /\ UNCHANGED <<outcome, log>>
    /\ UNCHANGED <<now, defaultRetryTimeout, lastScreenshot, lastScreenshotBounds, matchResult,
                   calls, args, retryStart, att, pre>>
    /\ UNCHANGED notTaskVars

\* _retryTakingScreenshot after the loop: one more attempt unless the stored
\* result is as expected.
AfterLoop(i) ==
    /\ pc[i] = "afterLoop"
    /\ IF ~IsResult(matchResult)
       THEN /\ Reject(i, "TypeError")
            /\ UNCHANGED att
       ELSE IF NeedsFinalAttempt(matchResult)
       THEN /\ IssueAttempt(i, "final", FinalIgnoreMismatch(args[i].ignoreMismatch),
                            Obj("CheckSettings"), Obj("ImageMatchSettings"), log[i])
            /\ UNCHANGED outcome
       ELSE /\ pc' = [pc EXCEPT ![i] = "finish"]
            /\ UNCHANGED <<att, outcome, log>>
    /\ UNCHANGED <<now, defaultRetryTimeout, lastScreenshot, lastScreenshotBounds, matchResult,
                   calls, args, retryStart, loop, held, pre>>
    /\ UNCHANGED notTaskVars

\* matchWindow, the callback on _takeScreenshot's promise: unless
\* ignoreMismatch, _updateLastScreenshot and _updateBounds; the promise
\* resolves with this._matchResult.
Finish(i) ==
    /\ pc[i] = "finish"
    /\ IF KeepsTaskState(args[i].ignoreMismatch)
       THEN UNCHANGED <<lastScreenshot, lastScreenshotBounds>>
       ELSE /\ lastScreenshot' = UpdateLastScreenshot(lastScreenshot, held[i])
            /\ lastScreenshotBounds' = UpdateBounds(args[i].region, lastScreenshot')
    /\ outcome' = [outcome EXCEPT ![i] = [kind |-> "resolved", result |-> matchResult]]
    /\ pc' = [pc EXCEPT ![i] = "resolved"]
    /\ UNCHANGED <<now, defaultRetryTimeout, matchResult,
                   calls, args, retryStart, loop, att, held, pre, log>>
    /\ UNCHANGED notTaskVars

\* The caller has the outcome; the invocation's closures are gone.
Return(i) ==
    /\ pc[i] \in {"resolved", "rejected"}
    /\ pc' = [pc EXCEPT ![i] = "idle"]
    /\ args' = [args EXCEPT ![i] = NoArgs]
    /\ retryStart' = [retryStart EXCEPT ![i] = 0]
    /\ loop' = [loop EXCEPT ![i] = NoLoop]
    /\ att' = [att EXCEPT ![i] = NoAtt]
    /\ held' = [held EXCEPT ![i] = NoScreenshot]
    /\ outcome' = [outcome EXCEPT ![i] = NoOutcome]
    /\ pre' = [pre EXCEPT ![i] = NoPre]
    /\ log' = [log EXCEPT ![i] = <<>>]
    /\ UNCHANGED <<now, defaultRetryTimeout, lastScreenshot, lastScreenshotBounds, matchResult,
                   calls>>
    /\ UNCHANGED notTaskVars

\* One caller: invocations on the task never overlap.
Next ==
    \/ \E i \in Callers, region \in Regions, runOnce \in BOOLEAN, im \in BOOLEAN,
          rt \in RetryTimeouts : MatchWindow(i, region, runOnce, im, rt)
    \/ \E i \in Callers : SleepOnceDone(i)
    \/ \E i \in Callers : SleepPollDone(i)
    \/ \E i \in Callers, hasScreenshot \in BOOLEAN, comp \in {"none", "delta", "plain", "failed"} :
          CaptureDone(i, hasScreenshot, comp)
    \/ \E i \in Callers : CaptureFail(i)
    \/ \E i \in Callers : RegionsResolved(i)
    \/ \E i \in Callers : RegionsFail(i)
    \/ \E i \in Callers, asExpected \in BOOLEAN, d \in Durations : ServerRespond(i, asExpected, d)
    \/ \E i \in Callers : ServerFail(i)
    \/ \E i \in Callers : LoopCheck(i)
    \/ \E i \in Callers : AfterLoop(i)
    \/ \E i \in Callers : Finish(i)
    \/ \E i \in Callers : Return(i)

Spec == Init /\ [][Next]_vars

\* Two callers: matchWindow is called again on the task before the promise
\* of the call before it has settled, and the steps of the two invocations
\* interleave at their waits.
NextOverlap ==
    \/ \E i \in Invs, runOnce \in BOOLEAN, rt \in {0, MATCH_INTERVAL} :
          MatchWindow(i, EmptyRegion, runOnce, FALSE, rt)
    \/ \E i \in Invs : SleepOnceDone(i)
    \/ \E i \in Invs : SleepPollDone(i)
    \/ \E i \in Invs, comp \in {"none", "plain"} : CaptureDone(i, TRUE, comp)
    \/ \E i \in Invs : CaptureFail(i)
    \/ \E i \in Invs : RegionsResolved(i)
    \/ \E i \in Invs : RegionsFail(i)
    \/ \E i \in Invs, asExpected \in BOOLEAN : ServerRespond(i, asExpected, 100)
    \/ \E i \in Invs : ServerFail(i)
    \/ \E i \in Invs : LoopCheck(i)
    \/ \E i \in Invs : AfterLoop(i)
    \/ \E i \in Invs : Finish(i)
    \/ \E i \in Invs : Return(i)

SpecOverlap == Init /\ [][NextOverlap]_vars

\* --------------------------------------------------------------- EyesBase

\* Control rectangles given to the trigger operations: inside the screenshot,
\* across its lower right corner, and outside it.
Controls == {MkRegion(1, 2, 3, 4), MkRegion(ImageWidth - 2, ImageHeight - 2, 3, 4),
             MkRegion(ImageWidth + 12, ImageHeight + 14, 3, 4)}
\* Cursor positions given to addMouseTriggerBase.
Cursors == {MkLocation(1, 1), MkLocation(ImageWidth + 1, ImageHeight + 3)}

Max(a, b) == IF a >= b THEN a ELSE b
Min(a, b) == IF a <= b THEN a ELSE b

\* Region.intersect: the common part of two rectangles, Region.EMPTY if none.
Intersect(a, b) ==
    LET l == Max(a.left, b.left)
        t == Max(a.top, b.top)
        r == Min(a.left + a.width, b.left + b.width)
        u == Min(a.top + a.height, b.top + b.height)
    IN IF r > l /\ u > t THEN MkRegion(l, t, r - l, u - t) ELSE EmptyRegion

\* EyesScreenshot.getIntersectedRegion(region, SCREENSHOT_AS_IS): the part of
\* the region that lies in the screenshot, in the screenshot's coordinates.
GetIntersectedRegion(s, region) == Intersect(region, MkRegion(0, 0, s.w, s.h))

\* EyesScreenshot.getLocationInScreenshot(location, CONTEXT_RELATIVE): what
\* the lookup can do.  A location outside the screenshot raises an
\* OutOfBoundsError; the SDK's implementation may also raise another error.
LookupOutcomes(s, location) ==
    IF location.x >= 0 /\ location.x < s.w /\ location.y >= 0 /\ location.y < s.h
    THEN {"ok", "Error"}
    ELSE {"OutOfBoundsError", "Error"}

\* A Trigger in this._userInputs.
TextTrigger(control) == [type |-> "Text", control |-> control, location |-> ZERO]
MouseTrigger(control, location) == [type |-> "Mouse", control |-> control, location |-> location]

\* The start of an EyesBase operation: what it was called with and what it found.
Called(op, c) ==
    [c EXCEPT !.op = op, !.disabled = eyes.isDisabled, !.wasOpen = eyes.isOpen,
              !.session = eyes.runningSession, !.inputs = userInputs,
              !.screenshot = lastScreenshot]

\* A synchronous return or throw, or the settling of the operation's promise.
Out(kind, value) == [NoOut EXCEPT !.kind = kind, !.value = value]
\* ... with TestResults (resolved with them, or carried by the error).
OutResults(kind, value, results) == [Out(kind, value) EXCEPT !.results = results]
\* ... resolved with a MatchResult.
OutMatch(asExpected) == [Out("resolved", "MatchResult") EXCEPT !.asExpected = asExpected]

\* The trigger operations and the settings check ahead of them:
\* "Triggers are actually performed on the previous window."
HasLastScreenshot == eyes.matchWindowTask /\ IsScreenshot(lastScreenshot)

\* setIsDisabled(isDisabled)
SetIsDisabled(isDisabled) ==
    /\ epc = "idle"
    /\ ops < MaxOps
    /\ ops' = ops + 1
    /\ eyes' = [eyes EXCEPT !.isDisabled = isDisabled]
    /\ ecall' = Called("setIsDisabled", NoCall)
    /\ eout' = Out("returned", "undefined")
    /\ srv' = <<>>
    /\ UNCHANGED <<userInputs, epc>>
    /\ UNCHANGED sess
    /\ UNCHANGED <<taskVars, locVars, restVars>>

\* Variant: an empty intersection is recorded like any other.
DropsTextTrigger_Never(control) == FALSE

\* addTextTriggerBase: if (control.isEmpty()) the trigger is ignored.
DropsTextTrigger(control) == IsEmpty(control)

\* addTextTriggerBase(control, text)
AddTextTriggerBase(control) ==
    /\ epc = "idle"
    /\ ops < MaxOps
    /\ ops' = ops + 1
    /\ ecall' = Called("addTextTriggerBase", [NoCall EXCEPT !.control = control])
    /\ srv' = <<>>
    /\ IF ~eyes.initialised
       THEN /\ eout' = Out("threw", "TypeError")
            /\ UNCHANGED userInputs
       ELSE IF eyes.isDisabled \/ ~HasLastScreenshot
       THEN /\ eout' = Out("returned", "undefined")
            /\ UNCHANGED userInputs
       ELSE LET inter == GetIntersectedRegion(lastScreenshot, control) IN
            /\ eout' = Out("returned", "undefined")
            /\ userInputs' = IF DropsTextTrigger(inter)
                              THEN userInputs
                              ELSE Append(userInputs, TextTrigger(inter))
    /\ UNCHANGED <<eyes, epc>>
    /\ UNCHANGED sess
    /\ UNCHANGED <<taskVars, locVars, restVars>>

\* addMouseTriggerBase: the location handed to the lookup.  The Location
\* returned by cursorInScreenshot.offsetByLocation(control.getLocation()) is
\* not kept, so the lookup gets the cursor as given.
CursorLookedUp(cursor, control) == cursor

\* Variant: the catch clause swallows every error.
CatchesLookupError_All(err) == TRUE

\* addMouseTriggerBase: catch (err) { if (err instanceof OutOfBoundsError)
\* return; throw err; }
CatchesLookupError(err) == err = "OutOfBoundsError"

\* addMouseTriggerBase: the trigger is pushed whether or not the
\* control/screenshot intersection is empty.
PushesMouseTrigger(control) == TRUE

\* addMouseTriggerBase: the cursor recorded in the trigger.  The Location
\* returned by cursorInScreenshot.offset(-l.x, -l.y) is not kept.
CursorRecorded(located, control) == located

\* addMouseTriggerBase(action, control, cursor); lookup is what
\* getLocationInScreenshot does.
AddMouseTriggerBase(control, cursor, lookup) ==
    /\ epc = "idle"
    /\ ops < MaxOps
    /\ ops' = ops + 1
    /\ srv' = <<>>
    /\ IF ~eyes.initialised
       THEN /\ lookup = "none"
            /\ eout' = Out("threw", "TypeError")
            /\ UNCHANGED userInputs
       ELSE IF eyes.isDisabled \/ ~HasLastScreenshot
       THEN /\ lookup = "none"
            /\ eout' = Out("returned", "undefined")
            /\ UNCHANGED userInputs
       ELSE /\ lookup \in LookupOutcomes(lastScreenshot, CursorLookedUp(cursor, control))
            /\ IF lookup # "ok"
               THEN /\ eout' = IF CatchesLookupError(lookup)
                                THEN Out("returned", "undefined")
                                ELSE Out("threw", lookup)
                    /\ UNCHANGED userInputs
               ELSE LET inter == GetIntersectedRegion(lastScreenshot, control)
                        located == CursorLookedUp(cursor, control)
                    IN /\ eout' = Out("returned", "undefined")
                       /\ userInputs' =
                             IF PushesMouseTrigger(inter)
                             THEN Append(userInputs, MouseTrigger(inter, CursorRecorded(located, inter)))
                             ELSE userInputs
    /\ ecall' = Called("addMouseTriggerBase",
                       [NoCall EXCEPT !.control = control, !.cursor = cursor, !.lookup = lookup,
                                      !.looked = IF lookup = "none" THEN ZERO
                                                 ELSE CursorLookedUp(cursor, control)])
    /\ UNCHANGED <<eyes, epc>>
    /\ UNCHANGED sess
    /\ UNCHANGED <<taskVars, locVars, restVars>>

\* The task's variables that belong to one matchWindow invocation, and the
\* clock and the default budget: the EyesBase operations leave them alone.
taskRest == <<now, defaultRetryTimeout, pc, args, retryStart, loop, att, held, outcome, pre, log>>

\* A call of the server connector or of the capture collaborator.
SrvCall(call, isAborted, save) == [call |-> call, isAborted |-> isAborted, save |-> save]

\* What the server reports when a session is stopped: a status, or none
\* (an outdated server) with or without missing steps and mismatches.
StopAnswers == {<<"Passed", TRUE>>, <<"Unresolved", FALSE>>, <<"Failed", FALSE>>,
                <<"none", TRUE>>, <<"none", FALSE>>}

\* Variant: the match task outlives the session.
FinallyClose_KeepsTask(e) ==
    [e EXCEPT !.autSessionId = FALSE, !.runningSession = "none"]

\* _finallyClose
FinallyClose(e) ==
    [e EXCEPT !.matchWindowTask = FALSE, !.autSessionId = FALSE, !.runningSession = "none"]

\* Variant: an aborted test is saved like a closed one.
Save_AbortedToo(isAborted, isNewSession, saveNewTests, saveFailedTests) ==
    (isNewSession /\ saveNewTests) \/ (~isNewSession /\ saveFailedTests)

\* _endSession: const save = !isAborted && ((isNewSession && _saveNewTests) ||
\* (!isNewSession && _saveFailedTests))
Save(isAborted, isNewSession, saveNewTests, saveFailedTests) ==
    ~isAborted /\ ((isNewSession /\ saveNewTests) \/ (~isNewSession /\ saveFailedTests))

\* _endSession: "for backwards compatibility with outdated servers".
StatusOf(status, clean) ==
    IF status = "none" THEN (IF clean THEN "Passed" ELSE "Unresolved") ELSE status

\* Variant: an unresolved or failed test rejects whatever throwEx.
RejectsOnStatus_Always(status, throwEx) == status \in {"Unresolved", "Failed"}

\* _endSession: if (throwEx) reject(...) in the Unresolved and Failed branches.
RejectsOnStatus(status, throwEx) == throwEx /\ status \in {"Unresolved", "Failed"}

\* _endSession: the error of each branch.
StatusError(status, isNew) ==
    IF status = "Failed" THEN "TestFailedError"
    ELSE IF isNew THEN "NewTestError" ELSE "DiffsFoundError"

\* _endSession without a running session: the chain ends with
\* "return serverResults", and serverResults was never assigned on this path
\* (the empty TestResults the inner promise resolved with is dropped).
EmptySessionOut == Out("resolved", "undefined")

\* Variant: _validateSessionOpen does not throw after the abort.
AfterEndSession_Continues(op, o) == o

\* How the operation that reached _endSession settles once the session is
\* over: openBase went through _validateSessionOpen, which throws after the
\* abort; close and abortIfNotClosed settle as _endSession does.
AfterEndSession(op, o) ==
    IF op = "openBase"
    THEN IF o.kind = "resolved" THEN Out("rejected", "A test is already running") ELSE o
    ELSE o

\* _endSession(isAborted, throwEx) up to its first wait.
EndSession(op, isAborted, throwEx) ==
    /\ userInputs' = <<>>
    /\ IF eyes.runningSession = "none"
       THEN /\ eyes' = FinallyClose([eyes EXCEPT !.isOpen = FALSE])
            /\ eout' = AfterEndSession(op, EmptySessionOut)
            /\ srv' = <<>>
            /\ epc' = "idle"
       ELSE /\ eyes' = [eyes EXCEPT !.isOpen = FALSE]
            /\ eout' = NoOut
            /\ srv' = <<SrvCall("stopSession", isAborted,
                                Save(isAborted, eyes.runningSession = "new",
                                     eyes.saveNewTests, eyes.saveFailedTests))>>
            /\ epc' = "stopping"

\* serverConnector.stopSession resolved with the test results.
StopSessionDone(answer) ==
    LET status == StatusOf(answer[1], answer[2])
        isNew == ecall.session = "new"
        results == [status |-> status, isNew |-> isNew]
    IN /\ epc = "stopping"
       /\ epc' = "idle"
       /\ eyes' = FinallyClose(eyes)
       /\ eout' = AfterEndSession(ecall.op,
                     IF RejectsOnStatus(status, ecall.throwEx)
                     THEN OutResults("rejected", StatusError(status, isNew), results)
                     ELSE OutResults("resolved", "TestResults", results))
       /\ UNCHANGED <<userInputs, ecall, srv, ops>>
       /\ UNCHANGED sess
       /\ UNCHANGED <<taskVars, locVars, restVars>>

\* serverConnector.stopSession rejected.
StopSessionFail ==
    /\ epc = "stopping"
    /\ epc' = "idle"
    /\ eyes' = FinallyClose(eyes)
    /\ eout' = Out("rejected", "TransportError")
    /\ UNCHANGED <<userInputs, ecall, srv, ops>>
    /\ UNCHANGED sess
    /\ UNCHANGED <<taskVars, locVars, restVars>>

\* The record of a test starts afresh: at openBase, and when close or
\* abortIfNotClosed end it.
NewTest(s) ==
    [s EXCEPT !.starts = 0, !.sessions = 0, !.tasks = 0, !.task = 0, !.sent = {}]

\* Variant: a session is started whether or not one is running.
NeedsStartSession_Always(e) == TRUE

\* _ensureRunningSession: if (this._runningSession) return resolve();
\* otherwise startSession() and a new MatchWindowTask.
NeedsStartSession(e) == e.runningSession = "none"

\* close(throwEx)
Close(throwEx) ==
    /\ epc = "idle"
    /\ ops < MaxOps
    /\ ops' = ops + 1
    /\ ecall' = Called("close", [NoCall EXCEPT !.throwEx = throwEx])
    /\ IF ~eyes.initialised
       THEN /\ eout' = Out("threw", "TypeError")
            /\ srv' = <<>>
            /\ UNCHANGED <<eyes, userInputs, epc>>
       ELSE IF eyes.isDisabled
       THEN /\ eyes' = FinallyClose(eyes)
            /\ eout' = OutResults("resolved", "TestResults", EmptyResults)
            /\ srv' = <<>>
            /\ UNCHANGED <<userInputs, epc>>
       ELSE IF ~eyes.isOpen
       THEN /\ eyes' = FinallyClose(eyes)
            /\ eout' = Out("rejected", "Close called with Eyes not open")
            /\ srv' = <<>>
            /\ UNCHANGED <<userInputs, epc>>
       ELSE EndSession("close", FALSE, throwEx)
    /\ sess' = IF eyes.initialised THEN NewTest(sess) ELSE sess
    /\ UNCHANGED <<taskVars, locVars, restVars>>

\* abortIfNotClosed()
AbortIfNotClosed ==
    /\ epc = "idle"
    /\ ops < MaxOps
    /\ ops' = ops + 1
    /\ ecall' = Called("abortIfNotClosed", [NoCall EXCEPT !.isAborted = TRUE])
    /\ IF ~eyes.initialised
       THEN /\ eout' = Out("threw", "TypeError")
            /\ srv' = <<>>
            /\ UNCHANGED <<eyes, userInputs, epc>>
       ELSE IF eyes.isDisabled
       THEN /\ eyes' = FinallyClose(eyes)
            /\ eout' = OutResults("resolved", "TestResults", EmptyResults)
            /\ srv' = <<>>
            /\ UNCHANGED <<userInputs, epc>>
       ELSE IF ~eyes.isOpen
       THEN /\ eyes' = FinallyClose(eyes)
            /\ eout' = Out("resolved", "undefined")
            /\ srv' = <<>>
            /\ UNCHANGED <<userInputs, epc>>
       ELSE EndSession("abortIfNotClosed", TRUE, FALSE)
    /\ sess' = IF eyes.initialised THEN NewTest(sess) ELSE sess
    /\ UNCHANGED <<taskVars, locVars, restVars>>

\* openBase(appName, testName, viewportSize); viewport: a size was given.
OpenBase(viewport) ==
    /\ epc = "idle"
    /\ ops < MaxOps
    /\ ops' = ops + 1
    /\ ecall' = Called("openBase", NoCall)
    /\ IF ~eyes.initialised
       THEN /\ eout' = Out("threw", "TypeError")
            /\ srv' = <<>>
            /\ UNCHANGED <<eyes, userInputs, epc>>
       ELSE IF eyes.isDisabled
       THEN /\ eout' = Out("resolved", "undefined")
            /\ srv' = <<>>
            /\ UNCHANGED <<eyes, userInputs, epc>>
       ELSE IF eyes.isOpen
       THEN EndSession("openBase", TRUE, FALSE)
       ELSE IF viewport /\ NeedsStartSession(eyes)
       THEN /\ eyes' = [eyes EXCEPT !.autSessionId = TRUE]
            /\ eout' = NoOut
            /\ srv' = <<SrvCall("startSession", FALSE, FALSE)>>
            /\ epc' = "starting"
            /\ UNCHANGED userInputs
       ELSE /\ eyes' = [eyes EXCEPT !.autSessionId = TRUE, !.isOpen = TRUE]
            /\ eout' = Out("resolved", "undefined")
            /\ srv' = <<>>
            /\ UNCHANGED <<userInputs, epc>>
    /\ sess' = IF ~eyes.initialised \/ eyes.isDisabled THEN sess
               ELSE IF epc' = "starting" THEN [NewTest(sess) EXCEPT !.starts = 1]
               ELSE NewTest(sess)
    /\ UNCHANGED <<taskVars, locVars, restVars>>

\* getUserInputs(): the inputs collected so far (null when disabled).
GetUserInputs(e, inputs) == IF e.isDisabled THEN <<>> ELSE inputs

\* EyesBase.matchWindow: self._matchWindowTask.matchWindow(self.getUserInputs(),
\* region, tag, self._shouldMatchWindowRunOnceOnTimeout, ...); m: a check of
\* the running session has mismatched before.
HandedToTask(s, e, inputs, m) ==
    [s EXCEPT !.runOnce = e.shouldMatchWindowRunOnceOnTimeout, !.inputs = inputs,
              !.mismatch = m]

\* checkWindowBase(regionProvider, tag, ignoreMismatch, checkSettings)
CheckWindowBase(region, ignoreMismatch) ==
    /\ epc = "idle"
    /\ ops < MaxOps
    /\ ops' = ops + 1
    /\ ecall' = Called("checkWindowBase",
                       [NoCall EXCEPT !.region = region, !.ignoreMismatch = ignoreMismatch])
    /\ IF ~eyes.initialised
       THEN /\ eout' = Out("threw", IF eyes.isDisabled THEN "TypeError" ELSE "Eyes not open")
            /\ srv' = <<>>
            /\ UNCHANGED <<eyes, epc>>
       ELSE IF eyes.isDisabled
       THEN /\ eout' = OutMatch(TRUE)
            /\ srv' = <<>>
            /\ UNCHANGED <<eyes, epc>>
       ELSE IF ~eyes.isOpen
       THEN /\ eout' = Out("threw", "Eyes not open")
            /\ srv' = <<>>
            /\ UNCHANGED <<eyes, epc>>
       ELSE IF NeedsStartSession(eyes)
       THEN /\ eyes' = [eyes EXCEPT !.autSessionId = TRUE]
            /\ eout' = NoOut
            /\ srv' = <<SrvCall("startSession", FALSE, FALSE)>>
            /\ epc' = "starting"
       ELSE /\ eout' = NoOut
            /\ srv' = <<>>
            /\ epc' = "matching"
            /\ UNCHANGED eyes
    /\ sess' = IF epc' = "matching"
               THEN HandedToTask(sess, eyes, GetUserInputs(eyes, userInputs), sess.mismatch)
               ELSE IF epc' = "starting" THEN [sess EXCEPT !.starts = @ + 1]
               ELSE sess
    /\ UNCHANGED userInputs
    /\ UNCHANGED <<taskVars, locVars, restVars>>

\* serverConnector.startSession resolved: startSession keeps the running
\* session and sets the run-once flag, _ensureRunningSession creates the
\* MatchWindowTask; then openBase opens, checkWindowBase goes on to match.
StartSessionDone(isNewSession) ==
    /\ epc = "starting"
    /\ lastScreenshot' = NoScreenshot
    /\ lastScreenshotBounds' = NoRegion
    /\ matchResult' = NoResult
    /\ IF ecall.op = "openBase"
       THEN /\ eyes' = [eyes EXCEPT !.runningSession = IF isNewSession THEN "new" ELSE "existing",
                                    !.shouldMatchWindowRunOnceOnTimeout = isNewSession,
                                    !.matchWindowTask = TRUE,
                                    !.isOpen = TRUE]
            /\ eout' = Out("resolved", "undefined")
            /\ epc' = "idle"
       ELSE /\ eyes' = [eyes EXCEPT !.runningSession = IF isNewSession THEN "new" ELSE "existing",
                                    !.shouldMatchWindowRunOnceOnTimeout = isNewSession,
                                    !.matchWindowTask = TRUE]
            /\ epc' = "matching"
            /\ UNCHANGED eout
    /\ sess' = LET started == [sess EXCEPT !.sessions = @ + 1, !.tasks = @ + 1,
                                            !.task = sess.sessions + 1,
                                            !.mismatch = FALSE, !.checked = FALSE]
               IN IF epc' = "matching"
                  THEN HandedToTask(started, eyes', GetUserInputs(eyes', userInputs), FALSE)
                  ELSE started
    /\ UNCHANGED <<userInputs, ecall, srv, ops, calls>>
    /\ UNCHANGED <<taskRest, locVars, restVars>>

\* startSession rejected (the server call, or setting the viewport size).
StartSessionFail ==
    /\ epc = "starting"
    /\ epc' = "idle"
    /\ eout' = Out("rejected", "TransportError")
    /\ UNCHANGED <<eyes, userInputs, ecall, srv, ops>>
    /\ UNCHANGED sess
    /\ UNCHANGED <<taskVars, locVars, restVars>>

\* Variant: the inputs are cleared after every check.
ClearsUserInputs_Always(ignoreMismatch) == TRUE

\* checkWindowBase: if (!ignoreMismatch) this.clearUserInputs().
ClearsUserInputs(ignoreMismatch) == ~ignoreMismatch

\* Variant: the flag follows the verdict of the last check.
RunOnceAfterResult_LastVerdict(flag, asExpected) == ~asExpected

\* _validateResult: a matching result returns at once, any other sets
\* this._shouldMatchWindowRunOnceOnTimeout = true.
RunOnceAfterResult(flag, asExpected) == flag \/ ~asExpected

\* _validateResult: a mismatch with failure reports IMMEDIATE throws.
ThrowsOnMismatch(asExpected, failureReports) == ~asExpected /\ failureReports = "IMMEDIATE"

\* this._matchWindowTask.matchWindow(...) resolved (the invocation modelled
\* step by step above: its last verdict is asExpected, its last attempt had a
\* screenshot or not); then checkWindowBase's own callback: clearUserInputs
\* unless ignoreMismatch, and _validateResult.
MatchWindowDone(asExpected, hasScreenshot) ==
    LET shot == IF hasScreenshot
                THEN MkScreenshot(calls + 1, 1, ImageWidth, ImageHeight)
                ELSE NoScreenshot
    IN /\ epc = "matching"
       /\ epc' = "idle"
       /\ calls' = calls + 1
       /\ matchResult' = StoreMatchResult(matchResult, MkResult(calls + 1, 1, asExpected))
       /\ IF KeepsTaskState(ecall.ignoreMismatch)
          THEN UNCHANGED <<lastScreenshot, lastScreenshotBounds>>
          ELSE /\ lastScreenshot' = UpdateLastScreenshot(lastScreenshot, shot)
               /\ lastScreenshotBounds' = UpdateBounds(ecall.region, lastScreenshot')
       /\ srv' = srv \o <<SrvCall("getScreenshot", FALSE, FALSE), SrvCall("matchWindow", FALSE, FALSE)>>
       /\ userInputs' = IF ClearsUserInputs(ecall.ignoreMismatch) THEN <<>> ELSE userInputs
       /\ eyes' = [eyes EXCEPT !.shouldMatchWindowRunOnceOnTimeout =
                                   RunOnceAfterResult(@, asExpected)]
       /\ sess' = [sess EXCEPT !.mismatch = @ \/ ~asExpected,
                                !.sent = @ \cup {sess.task},
                                !.checked = @ \/ ~ecall.ignoreMismatch]
       /\ eout' = IF ThrowsOnMismatch(asExpected, eyes.failureReports)
                  THEN Out("rejected", "TestFailedError")
                  ELSE OutMatch(asExpected)
       /\ UNCHANGED <<ecall, ops>>
       /\ UNCHANGED <<taskRest, locVars, restVars>>

\* this._matchWindowTask.matchWindow(...) rejected.
MatchWindowFail ==
    /\ epc = "matching"
    /\ epc' = "idle"
    /\ eout' = Out("rejected", "TransportError")
    /\ srv' = Append(srv, SrvCall("getScreenshot", FALSE, FALSE))
    /\ UNCHANGED <<eyes, userInputs, ecall, ops>>
    /\ UNCHANGED sess
    /\ UNCHANGED <<taskVars, locVars, restVars>>

\* An EyesBase object, constructed disabled or not and configured, and the
\* operations called on it one after the other.
InitEyes ==
    /\ \E isDisabled \in BOOLEAN, saveNewTests \in BOOLEAN, saveFailedTests \in BOOLEAN,
          failureReports \in {"ON_CLOSE", "IMMEDIATE"} :
          eyes = NewEyes(isDisabled, saveNewTests, saveFailedTests, failureReports)
    /\ userInputs = <<>>
    /\ epc = "idle"
    /\ ecall = NoCall
    /\ eout = NoOut
    /\ srv = <<>>
    /\ ops = 0
    /\ sess = NoSess
    /\ LocationUnused
    /\ RestUnused
    /\ now = Epoch
    /\ defaultRetryTimeout = DEFAULT_MATCH_TIMEOUT
    /\ TaskUnused

NextEyes ==
    \/ \E isDisabled \in BOOLEAN : SetIsDisabled(isDisabled)
    \/ \E viewport \in BOOLEAN : OpenBase(viewport)
    \/ \E region \in Regions, ignoreMismatch \in BOOLEAN : CheckWindowBase(region, ignoreMismatch)
    \/ \E isNewSession \in BOOLEAN : StartSessionDone(isNewSession)
    \/ StartSessionFail
    \/ \E asExpected \in BOOLEAN, hasScreenshot \in BOOLEAN : MatchWindowDone(asExpected, hasScreenshot)
    \/ MatchWindowFail
    \/ \E control \in Controls : AddTextTriggerBase(control)
    \/ \E control \in Controls, cursor \in Cursors,
          lookup \in {"none", "ok", "OutOfBoundsError", "Error"} :
          AddMouseTriggerBase(control, cursor, lookup)
    \/ \E throwEx \in BOOLEAN : Close(throwEx)
    \/ AbortIfNotClosed
    \/ \E answer \in StopAnswers : StopSessionDone(answer)
    \/ StopSessionFail

SpecEyes == InitEyes /\ [][NextEyes]_vars

\* --------------------------------------------------------------- Location

\* Coordinates of the Locations under test.
Coords == (0 - MaxCoord)..MaxCoord
\* Amounts given to offset and offsetByLocation.
Offsets == {-2, 0, 5}
\* Ratios given to scale, as numerator and denominator (binary fractions, so
\* that x * ratio is exact in floating point).
Ratios == {<<1, 2>>, <<3, 2>>, <<2, 1>>, <<5, 4>>}

\* Variant: Math.floor in place of Math.ceil.
Ceil_Floor(n, d) == n \div d

\* Math.ceil(n / d) for d > 0.
Ceil(n, d) == 0 - ((0 - n) \div d)

\* Location.offset(dx, dy): return new Location(this._x + dx, this._y + dy)
offset(l, dx, dy) == MkLocation(l.x + dx, l.y + dy)

\* Location.offsetByLocation(amount): return this.offset(amount.getX(), amount.getY())
offsetByLocation(l, amount) == offset(l, amount.x, amount.y)

\* Location.scale(scaleRatio): return new Location(Math.ceil(this._x *
\* scaleRatio), Math.ceil(this._y * scaleRatio)); the ratio is n / d.
scale(l, n, d) == MkLocation(Ceil(l.x * n, d), Ceil(l.y * n, d))

\* Variant: the methods work in place, the receiver becomes the result.
Receiver_InPlace(l, result) == result

\* The receiver after offset, offsetByLocation or scale: none of them
\* assigns this._x or this._y.
Receiver(l, result) == l

\* A call on the receiver, with the receiver's coordinates when it was made.
Call(op, a, b) == [op |-> op, a |-> a, b |-> b, x |-> loc.x, y |-> loc.y]

\* new Location(x, y)
NewLocation(x, y) ==
    /\ loc' = MkLocation(x, y)
    /\ locRes' = MkLocation(x, y)
    /\ locCall' = [op |-> "new", a |-> x, b |-> y, x |-> x, y |-> y]
    /\ UNCHANGED <<taskVars, eyesVars, restVars>>

\* loc.offset(dx, dy)
CallOffset(dx, dy) ==
    /\ locCall' = Call("offset", dx, dy)
    /\ locRes' = offset(loc, dx, dy)
    /\ loc' = Receiver(loc, locRes')
    /\ UNCHANGED <<taskVars, eyesVars, restVars>>

\* loc.offsetByLocation(amount)
CallOffsetByLocation(amount) ==
    /\ locCall' = Call("offsetByLocation", amount.x, amount.y)
    /\ locRes' = offsetByLocation(loc, amount)
    /\ loc' = Receiver(loc, locRes')
    /\ UNCHANGED <<taskVars, eyesVars, restVars>>

\* loc.scale(n / d)
CallScale(n, d) ==
    /\ locCall' = Call("scale", n, d)
    /\ locRes' = scale(loc, n, d)
    /\ loc' = Receiver(loc, locRes')
    /\ UNCHANGED <<taskVars, eyesVars, restVars>>

InitLocation ==
    /\ EyesUnused
    /\ LocationUnused
    /\ RestUnused
    /\ now = Epoch
    /\ defaultRetryTimeout = DEFAULT_MATCH_TIMEOUT
    /\ TaskUnused

NextLocation ==
    \/ \E x \in Coords, y \in Coords : NewLocation(x, y)
    \/ \E dx \in Offsets, dy \in Offsets : CallOffset(dx, dy)
    \/ \E x \in Offsets, y \in Offsets : CallOffsetByLocation(MkLocation(x, y))
    \/ \E r \in Ratios : CallScale(r[1], r[2])

SpecLocation == InitLocation /\ [][NextLocation]_vars

\* ----------------------------------------------------------- performMatch

\* A region container of the check settings: the k-th of its kind.
Container(kind, k) == [kind |-> kind, k |-> k]
\* The containers check settings can hold.
Containers == {Container(kind, k) : kind \in {"ignore", "floating"}, k \in 1..MaxRegions}
\* container.getRegion(eyes, screenshot)
GetRegion(c, screenshot) == [kind |-> c.kind, k |-> c.k, screenshot |-> screenshot]

\* checkSettings.getIgnoreRegions()
IgnoreContainers(p) == [k \in 1..p.ignore |-> Container("ignore", k)]

\* Variant: the floating regions are collected from the ignore containers.
FloatingContainers_Ignore(p) == [k \in 1..p.ignore |-> Container("ignore", k)]

\* checkSettings.getFloatingRegions()
FloatingContainers(p) == [k \in 1..p.floating |-> Container("floating", k)]

\* The elements of a list.
Elems(list) == {list[k] : k \in 1..Len(list)}

\* promiseFactory.all(regionPromises): rejected as soon as one promise is,
\* resolved once all are.
AllRejected(list, p) == Elems(list) \cap p.failed # {}
AllResolved(list, p) == Elems(list) \subseteq p.resolved

\* performMatch(userInputs, appOutput, tag, ignoreMismatch, checkSettings,
\* imageMatchSettings) with nI ignore and nF floating containers: the chain
\* starts with promiseFactory.resolve().
PerformMatch(nI, nF, screenshot) ==
    /\ pm.pc = "idle"
    /\ pm' = [NoPm EXCEPT !.pc = "collectIgnore", !.ignore = nI, !.floating = nF,
                          !.screenshot = screenshot]
    /\ UNCHANGED <<taskVars, eyesVars, locVars, codecVars>>

\* collectIgnoreRegions: getRegion is called on every container, in list
\* order, with the screenshot of the app output.
CollectIgnoreRegions ==
    LET list == IgnoreContainers(pm) IN
    /\ pm.pc = "collectIgnore"
    /\ pm' = [pm EXCEPT !.pc = "ignoreAll",
                        !.invoked = @ \o [k \in 1..Len(list) |-> GetRegion(list[k], pm.screenshot)],
                        !.pending = @ \cup Elems(list)]
    /\ UNCHANGED <<taskVars, eyesVars, locVars, codecVars>>

\* The promise of one getRegion call settles, whatever has become of the chain.
GetRegionDone(c, ok) ==
    /\ c \in pm.pending
    /\ pm' = [pm EXCEPT !.pending = @ \ {c},
                        !.resolved = IF ok THEN @ \cup {c} ELSE @,
                        !.failed = IF ok THEN @ ELSE @ \cup {c}]
    /\ UNCHANGED <<taskVars, eyesVars, locVars, codecVars>>

\* collectIgnoreRegions: all(...).then(ignoreRegions =>
\* imageMatchSettings.setIgnoreRegions(ignoreRegions)); a rejection rejects
\* performMatch.
IgnoreAll ==
    LET list == IgnoreContainers(pm) IN
    /\ pm.pc = "ignoreAll"
    /\ \/ /\ AllRejected(list, pm)
          /\ pm' = [pm EXCEPT !.pc = "rejected"]
       \/ /\ AllResolved(list, pm)
          /\ pm' = [pm EXCEPT !.pc = "collectFloating", !.ignoreRegions = list]
    /\ UNCHANGED <<taskVars, eyesVars, locVars, codecVars>>

\* collectFloatingRegions: as collectIgnoreRegions, for the floating containers.
CollectFloatingRegions ==
    LET list == FloatingContainers(pm) IN
    /\ pm.pc = "collectFloating"
    /\ pm' = [pm EXCEPT !.pc = "floatingAll",
                        !.invoked = @ \o [k \in 1..Len(list) |-> GetRegion(list[k], pm.screenshot)],
                        !.pending = @ \cup Elems(list)]
    /\ UNCHANGED <<taskVars, eyesVars, locVars, codecVars>>

\* collectFloatingRegions: all(...).then(floatingRegions =>
\* imageMatchSettings.setFloatingRegions(floatingRegions)).
FloatingAll ==
    LET list == FloatingContainers(pm) IN
    /\ pm.pc = "floatingAll"
    /\ \/ /\ AllRejected(list, pm)
          /\ pm' = [pm EXCEPT !.pc = "rejected"]
       \/ /\ AllResolved(list, pm)
          /\ pm' = [pm EXCEPT !.pc = "prepared", !.floatingRegions = list]
    /\ UNCHANGED <<taskVars, eyesVars, locVars, codecVars>>

\* performMatch, last callback: the match data is built and
\* serverConnector.matchWindow(runningSession, data) is called.
SubmitMatch ==
    /\ pm.pc = "prepared"
    /\ pm' = [pm EXCEPT !.pc = "matching", !.requests = @ + 1]
    /\ UNCHANGED <<taskVars, eyesVars, locVars, codecVars>>

\* The server answered the match request, or the request failed.
MatchAnswered(ok) ==
    /\ pm.pc = "matching"
    /\ pm' = [pm EXCEPT !.pc = IF ok THEN "resolved" ELSE "rejected"]
    /\ UNCHANGED <<taskVars, eyesVars, locVars, codecVars>>

\* One performMatch call on check settings with up to MaxRegions containers
\* of each kind.
InitRegions ==
    /\ EyesUnused
    /\ LocationUnused
    /\ RestUnused
    /\ now = Epoch
    /\ defaultRetryTimeout = DEFAULT_MATCH_TIMEOUT
    /\ TaskUnused

NextRegions ==
    \/ \E nI \in 0..MaxRegions, nF \in 0..MaxRegions, screenshot \in {1, 2} :
          PerformMatch(nI, nF, screenshot)
    \/ CollectIgnoreRegions
    \/ \E c \in Containers, ok \in BOOLEAN : GetRegionDone(c, ok)
    \/ IgnoreAll
    \/ CollectFloatingRegions
    \/ FloatingAll
    \/ SubmitMatch
    \/ \E ok \in BOOLEAN : MatchAnswered(ok)

SpecRegions == InitRegions /\ [][NextRegions]_vars

\* ------------------------------------------------------------ delta codec

\* Pixel values, image dimensions and block sizes under test: buffers of
\* four, five and six bytes, cut into two or three blocks, the last of which
\* can be short.
ImageSizes == {<<2, 2>>, <<5, 1>>, <<3, 2>>}
Images == UNION {{MkImage(sz[1], sz[2], d) : d \in [1..(sz[1] * sz[2]) -> {0, 1}]} :
                 sz \in ImageSizes}

\* One byte of a buffer: a data byte, or the byte of a signature or marker.
Byte(v) == [t |-> "byte", v |-> v]
Marker(t) == [t |-> t, v |-> 0]
Bytes(data) == [k \in 1..Len(data) |-> Byte(data[k])]
Values(buffer) == [k \in 1..Len(buffer) |-> buffer[k].v]

\* The plain encoded buffer of an image: a container format that carries
\* the dimensions and the pixels between a signature and an end marker.
Encode(img) ==
    <<Marker("plain"), Byte(img.w), Byte(img.h)>> \o Bytes(img.data) \o <<Marker("end")>>

\* Number of blocks of a buffer of n bytes, and its k-th block.
NumBlocks(n, bs) == (n + bs - 1) \div bs
Block(data, k, bs) == SubSeq(data, (k - 1) * bs + 1, Min(k * bs, Len(data)))

\* Variant: two blocks are taken for identical when their first bytes are.
SameBlock_FirstByte(t, s, k, bs) == t[(k - 1) * bs + 1] = s[(k - 1) * bs + 1]

\* The block is compared byte for byte with the block at the same place of
\* the source buffer.
SameBlock(t, s, k, bs) == Block(t, k, bs) = Block(s, k, bs)

\* The marker sequence from block k on: "skip" for an identical block,
\* "literal" and the block's raw bytes for a differing one.
RECURSIVE BlockStream(_, _, _, _)
BlockStream(t, s, k, bs) ==
    IF k > NumBlocks(Len(t), bs) THEN <<>>
    ELSE (IF SameBlock(t, s, k, bs)
          THEN <<Marker("skip")>>
          ELSE <<Marker("literal")>> \o Bytes(Block(t, k, bs)))
         \o BlockStream(t, s, k + 1, bs)

\* The delta stream: a header with the block size and the image dimensions,
\* then the marker sequence.
DeltaStream(target, source, bs) ==
    <<Marker("delta"), Byte(bs), Byte(target.w), Byte(target.h)>>
    \o BlockStream(target.data, source.data, 1, bs)

SameDimensions(a, b) == a.w = b.w /\ a.h = b.h

\* compress(targetRawPixels, targetEncodedBuffer, sourceRawPixels): the
\* plain buffer when the dimensions differ or the delta stream is not
\* shorter than it, the delta stream otherwise.
CompressByRawBlocks(target, encoded, source, bs) ==
    IF ~SameDimensions(target, source) THEN encoded
    ELSE LET delta == DeltaStream(target, source, bs) IN
         IF Len(delta) >= Len(encoded) THEN encoded ELSE delta

\* The reference decoder, from block k on: a skipped block is copied from
\* the source, a literal block is read from the stream.
RECURSIVE DecodeBlocks(_, _, _, _, _)
DecodeBlocks(stream, source, k, bs, n) ==
    IF k > NumBlocks(n, bs) THEN <<>>
    ELSE LET len == Min(k * bs, n) - (k - 1) * bs IN
         IF Head(stream).t = "skip"
         THEN Block(source, k, bs) \o DecodeBlocks(Tail(stream), source, k + 1, bs, n)
         ELSE Values(SubSeq(stream, 2, 1 + len))
              \o DecodeBlocks(SubSeq(stream, 2 + len, Len(stream)), source, k + 1, bs, n)

\* The reference decoder: the payload tells by its signature whether it is
\* a plain buffer or a delta stream, and a delta stream tells its block
\* size and dimensions.
Decode(payload, source) ==
    IF payload[1].t = "plain"
    THEN Values(SubSeq(payload, 4, 3 + payload[2].v * payload[3].v))
    ELSE DecodeBlocks(SubSeq(payload, 5, Len(payload)), source, 1,
                      payload[2].v, payload[3].v * payload[4].v)

\* Variant: the image data of the two screenshots are handed over swapped.
CompressArguments_Swapped(target, source) == <<source, target>>

\* _getAppOutputWithScreenshot: compressByRawBlocks(targetData, targetBuffer,
\* sourceData), targetData of the new screenshot, sourceData of the last one.
CompressArguments(target, source) == <<target, source>>

\* Variant: the saved size is taken the other way round.
SavedSize_Reversed(targetBuffer, screenshotBuffer) == Len(screenshotBuffer) - Len(targetBuffer)

\* _getAppOutputWithScreenshot: const savedSize = targetBuffer.length -
\* screenshotBuffer.length
SavedSize(targetBuffer, screenshotBuffer) == Len(targetBuffer) - Len(screenshotBuffer)

\* _getAppOutputWithScreenshot: what is logged after the compression.
CompressionMessage(savedSize) ==
    IF savedSize = 0 THEN "Compression skipped, because of significant difference."
    ELSE "Compression finished"

\* _getAppOutputWithScreenshot with delta compression in use and a last
\* screenshot: the buffer of the new screenshot is compressed against the
\* image data of the last one.
Compress(target, source, bs) ==
    LET targetBuffer == Encode(target)
        data == CompressArguments(target, source)
        screenshotBuffer == CompressByRawBlocks(data[1], targetBuffer, data[2], bs)
    IN /\ cdc.op = "none"
       /\ cdc' = [op |-> "compressed", bs |-> bs, target |-> target, source |-> source,
                  encoded |-> targetBuffer, payload |-> screenshotBuffer,
                  saved |-> SavedSize(targetBuffer, screenshotBuffer),
                  message |-> CompressionMessage(SavedSize(targetBuffer, screenshotBuffer)),
                  decoded |-> <<>>]
       /\ UNCHANGED <<taskVars, eyesVars, locVars, pmVars>>

\* The server decodes the payload against the raw buffer of the screenshot
\* it received before.
ServerDecode ==
    /\ cdc.op = "compressed"
    /\ cdc' = [cdc EXCEPT !.op = "decoded", !.decoded = Decode(cdc.payload, cdc.source.data)]
    /\ UNCHANGED <<taskVars, eyesVars, locVars, pmVars>>

\* One screenshot compressed against another and decoded.
InitCodec ==
    /\ EyesUnused
    /\ LocationUnused
    /\ RestUnused
    /\ now = Epoch
    /\ defaultRetryTimeout = DEFAULT_MATCH_TIMEOUT
    /\ TaskUnused

NextCodec ==
    \/ \E target \in Images, source \in Images, bs \in {2, 3} : Compress(target, source, bs)
    \/ ServerDecode

SpecCodec == InitCodec /\ [][NextCodec]_vars

\* ---------------------------------------------------------------- claims

Active(i) == pc[i] # "idle"
Settled(i) == pc[i] \in {"resolved", "rejected"}
\* Positions of the entries of kind e in the log of invocation i.
Pos(i, e) == {k \in 1..Len(log[i]) : log[i][k].e = e}
\* Every verdict so far was a mismatch.
AllMismatch(i) == \A k \in Pos(i, "verdict") : ~log[i][k].flag

\* C1: with budget T > 0 and run-once unset, when every attempt mismatches the
\* loop is left for the final attempt only once the elapsed time sampled after
\* an attempt has reached T; with T = 1200 and attempts of 100 ms (elapsed 600
\* after the first polling attempt, 1200 after the second) the invocation
\* makes exactly 3 attempts.
C1_PollsUntilBudgetSpent ==
    \A i \in Invs :
        /\ (/\ pc[i] = "afterLoop"
            /\ matchResult.call = args[i].call
            /\ ~matchResult.asExpected)
           => now - retryStart[i] >= args[i].retryTimeout
        /\ (/\ pc[i] = "resolved"
            /\ args[i].retryTimeout = 1200
            /\ ~args[i].shouldRunOnceOnTimeout
            /\ AllMismatch(i)
            /\ \A k \in Pos(i, "verdict") : log[i][k].ph = "poll" => log[i][k].ms = 100)
           => Count(log[i], "capture") = 3

\* C2: an invocation whose effective retry budget is 0, run-once unset, never
\* sleeps, makes no polling or final attempt and, once settled, has made
\* exactly one capture and (when it resolved) exactly one match request,
\* whatever the verdict.
C2_ZeroBudgetSingleAttempt ==
    \A i \in Invs :
        (Active(i) /\ args[i].retryTimeout = 0 /\ ~args[i].shouldRunOnceOnTimeout)
        => /\ Count(log[i], "sleep") = 0
           /\ \A k \in 1..Len(log[i]) : log[i][k].ph = "single"
           /\ Count(log[i], "capture") <= 1
           /\ Settled(i) => Count(log[i], "capture") = 1
           /\ pc[i] = "resolved" => Count(log[i], "match") = 1

\* C2 happens: a zero-budget invocation resolved with a mismatch.
C2_Witness ==
    \E i \in Invs :
        /\ pc[i] = "resolved"
        /\ args[i].retryTimeout = 0
        /\ ~args[i].shouldRunOnceOnTimeout
        /\ ~outcome[i].result.asExpected
        /\ Count(log[i], "verdict") = 1

\* C3: an invocation with run-once set sleeps once, for its effective retry
\* budget, before its only capture; it makes no polling or final attempt and,
\* once settled, has made exactly one capture, whatever the verdict.
C3_RunOnceSleepsThenSingleAttempt ==
    \A i \in Invs :
        (Active(i) /\ args[i].shouldRunOnceOnTimeout)
        => /\ \A k \in 1..Len(log[i]) : log[i][k].ph = "single"
           /\ Count(log[i], "sleep") <= 1
           /\ Count(log[i], "capture") <= 1
           /\ Len(log[i]) > 0 => /\ log[i][1].e = "sleep"
                                 /\ log[i][1].ms = args[i].retryTimeout
           /\ Settled(i) => Count(log[i], "capture") = 1
           /\ pc[i] = "resolved" => Count(log[i], "match") = 1

\* C3 happens: a run-once invocation with budget 500 resolved with a mismatch
\* after a single sleep of 500 ms.
C3_Witness ==
    \E i \in Invs :
        /\ pc[i] = "resolved"
        /\ args[i].shouldRunOnceOnTimeout
        /\ args[i].retryTimeout = 500
        /\ log[i][1] = Ev("sleep", "single", 500, FALSE, "")
        /\ ~outcome[i].result.asExpected

\* C4: every match request of a polling attempt carries ignoreMismatch = true,
\* every match request of the final or the single attempt carries the caller's
\* flag, and a match request with ignoreMismatch = false is the last match
\* request of its invocation.
C4_OnlyLastRequestCarriesCallerFlag ==
    \A i \in Invs : \A k \in Pos(i, "match") :
        /\ log[i][k].ph = "poll" => log[i][k].flag = TRUE
        /\ log[i][k].ph \in {"final", "single"} => log[i][k].flag = args[i].ignoreMismatch
        /\ log[i][k].flag = FALSE => \A m \in Pos(i, "match") : m <= k

\* C4 happens: a polling request with the flag forced, then the final request
\* with the caller's flag false.
C4_Witness ==
    \E i \in Invs :
        /\ pc[i] = "resolved"
        /\ ~args[i].ignoreMismatch
        /\ \E k, m \in Pos(i, "match") :
              /\ k < m
              /\ log[i][k].ph = "poll" /\ log[i][k].flag
              /\ log[i][m].ph = "final" /\ ~log[i][m].flag

\* C5: after a polling attempt whose verdict is asExpected the invocation
\* sleeps no more and issues no further capture or match request, and it
\* resolves with that verdict.
C5_MatchingPollEndsInvocation ==
    \A i \in Invs : \A k \in Pos(i, "verdict") :
        (log[i][k].ph = "poll" /\ log[i][k].flag)
        => /\ k = Len(log[i])
           /\ pc[i] \in {"loopCheck", "afterLoop", "finish", "resolved"}
           /\ pc[i] = "resolved" =>
                 outcome[i].result = MkResult(args[i].call, Count(log[i], "match"), TRUE)

\* C5 happens: an invocation resolved right after a matching polling attempt.
C5_Witness ==
    \E i \in Invs :
        /\ pc[i] = "resolved"
        /\ Len(log[i]) = 4
        /\ log[i][4].e = "verdict" /\ log[i][4].ph = "poll" /\ log[i][4].flag
        /\ outcome[i].result.asExpected

\* C6: with invocations that do not overlap, a resolved matchWindow yields the
\* server's verdict on the last attempt of that same invocation.
C6_ResolvesWithLastVerdict ==
    \A i \in Invs :
        pc[i] = "resolved"
        => /\ Len(log[i]) > 0
           /\ log[i][Len(log[i])].e = "verdict"
           /\ Count(log[i], "verdict") = Count(log[i], "match")
           /\ Count(log[i], "match") = Count(log[i], "capture")
           /\ outcome[i].kind = "resolved"
           /\ outcome[i].result = MkResult(args[i].call, Count(log[i], "match"),
                                           log[i][Len(log[i])].flag)

\* C6 happens: a mismatching polling attempt, then a matching final attempt
\* whose verdict is the one returned.
C6_Witness ==
    \E i \in Invs :
        /\ pc[i] = "resolved"
        /\ Count(log[i], "verdict") = 2
        /\ \E k \in Pos(i, "verdict") : log[i][k].ph = "poll" /\ ~log[i][k].flag
        /\ outcome[i].result = MkResult(args[i].call, 2, TRUE)

\* C7: from the call of a matchWindow with ignoreMismatch = true until its
\* outcome is delivered, the last screenshot and the last screenshot bounds
\* are what they were when it was called.
C7_IgnoreMismatchKeepsTaskState ==
    \A i \in Invs :
        (Active(i) /\ args[i].ignoreMismatch)
        => /\ lastScreenshot = pre[i].lastScreenshot
           /\ lastScreenshotBounds = pre[i].lastScreenshotBounds

\* C7 happens: an ignoreMismatch invocation resolved after two attempts, its
\* last one with a screenshot, on a task that retains an earlier screenshot.
C7_Witness ==
    \E i \in Invs :
        /\ pc[i] = "resolved"
        /\ args[i].ignoreMismatch
        /\ Count(log[i], "verdict") = 2
        /\ IsScreenshot(held[i])
        /\ IsScreenshot(lastScreenshot)
        /\ held[i] # lastScreenshot

\* C8: after a resolved matchWindow with ignoreMismatch = false the last
\* screenshot bounds are the caller's region when it is not empty; for an
\* empty region they are (0, 0, W, H) of the retained screenshot, or
\* (0, 0, MAX_VALUE, MAX_VALUE) when no screenshot is retained.
C8_BoundsAfterMatchWindow ==
    \A i \in Invs :
        (pc[i] = "resolved" /\ ~args[i].ignoreMismatch)
        => IF args[i].region.width # 0 \/ args[i].region.height # 0
           THEN lastScreenshotBounds = args[i].region
           ELSE IF lastScreenshot.n # 0
           THEN lastScreenshotBounds = MkRegion(0, 0, lastScreenshot.w, lastScreenshot.h)
           ELSE lastScreenshotBounds = MkRegion(0, 0, MAX_VALUE, MAX_VALUE)

\* C8 happens: a region given while a screenshot is retained.
C8_Witness ==
    \E i \in Invs :
        /\ pc[i] = "resolved"
        /\ ~args[i].ignoreMismatch
        /\ ~IsEmpty(args[i].region)
        /\ IsScreenshot(lastScreenshot)
        /\ lastScreenshotBounds = args[i].region

\* C9: a failed capture, region resolution or match request is the last thing
\* an invocation does: the invocation is rejected with that error and issues
\* no sleep, capture or match request after it.
C9_FailureEndsInvocation ==
    \A i \in Invs : \A k \in Pos(i, "fail") :
        /\ k = Len(log[i])
        /\ pc[i] = "rejected"
        /\ outcome[i].kind = log[i][k].err

\* C9 happens: the match request of the final attempt failed after a
\* mismatching polling attempt.
C9_Witness ==
    \E i \in Invs :
        /\ pc[i] = "rejected"
        /\ outcome[i].kind = "TransportError"
        /\ Count(log[i], "verdict") = 1
        /\ log[i][Len(log[i])].ph = "final"

\* C10: between two capture requests of an invocation the first attempt has
\* been answered: the server's verdict on it (or its failure) is in the log
\* before the next capture request.
C10_OneAttemptInFlight ==
    \A i \in Invs : \A k, m \in Pos(i, "capture") :
        k < m => \E a \in (k + 1)..(m - 1) : log[i][a].e \in {"verdict", "fail"}

\* C10 happens: a second attempt is in flight after the first was answered.
C10_Witness ==
    \E i \in Invs :
        /\ pc[i] = "matching"
        /\ Count(log[i], "capture") = 2
        /\ Count(log[i], "verdict") = 1

\* C11: an invocation given a negative retry budget other than the
\* USE_DEFAULT_TIMEOUT sentinel is rejected with a ConfigurationError before
\* it makes any capture or match request.
C11_NegativeBudgetRejected ==
    \A i \in Invs :
        (Active(i) /\ args[i].given < 0 /\ args[i].given # USE_DEFAULT_TIMEOUT)
        => /\ pc[i] = "rejected"
           /\ outcome[i].kind = "ConfigurationError"
           /\ Count(log[i], "capture") = 0
           /\ Count(log[i], "match") = 0

\* C11 (amended): an invocation given any negative retry budget, the sentinel
\* or not, runs with the task's default retry timeout; it is never rejected
\* with a ConfigurationError, and when it is rejected a capture was requested
\* before.
C11_NegativeBudgetMeansDefault ==
    \A i \in Invs :
        (Active(i) /\ args[i].given < 0)
        => /\ args[i].retryTimeout = defaultRetryTimeout
           /\ outcome[i].kind # "ConfigurationError"
           /\ pc[i] = "rejected" => Count(log[i], "capture") >= 1

\* C11 happens: an invocation given -5 on a task whose default is 1200 polled
\* (it slept MATCH_INTERVAL before its first capture) and resolved.
C11_Witness ==
    \E i \in Invs :
        /\ pc[i] = "resolved"
        /\ args[i].given < 0 /\ args[i].given # USE_DEFAULT_TIMEOUT
        /\ ~args[i].shouldRunOnceOnTimeout
        /\ args[i].retryTimeout = 1200
        /\ log[i][1] = Ev("sleep", "poll", MATCH_INTERVAL, FALSE, "")

\* C12: when the delta compression of an attempt's screenshot fails, the
\* application output carries the plain buffer, the invocation is not
\* rejected because of it, and the attempt goes on to resolve its regions and
\* submit its match request (only a failure of those steps can stop it).
C12_CompressionFailureFallsBack ==
    \A i \in Invs :
        /\ \A k \in Pos(i, "fail") : log[i][k].err # "CodecError"
        /\ (Active(i) /\ att[i].compress = "failed")
           => /\ att[i].buffer = "plain"
              /\ outcome[i].kind # "CodecError"
              /\ \/ pc[i] = "resolving"
                 \/ \E k \in Pos(i, "capture") :
                       /\ \A m \in Pos(i, "capture") : m <= k
                       /\ k < Len(log[i])
                       /\ \/ log[i][k + 1].e = "match"
                          \/ /\ log[i][k + 1].e = "fail"
                             /\ log[i][k + 1].err \in {"RegionError", "TypeError"}

\* C12 happens: the match request of an attempt whose compression failed is
\* in flight, with the plain buffer.
C12_Witness ==
    \E i \in Invs :
        /\ pc[i] = "matching"
        /\ IsScreenshot(lastScreenshot)
        /\ IsScreenshot(held[i])
        /\ att[i].compress = "failed"
        /\ att[i].buffer = "plain"

\* The last EyesBase operation was op, called on an enabled instance that
\* retained a last screenshot.
TriggerCalled(op) ==
    /\ ecall.op = op
    /\ ~ecall.disabled
    /\ eyes.matchWindowTask
    /\ ecall.screenshot.n # 0
\* The part of the control of the last operation that lies in the screenshot
\* it found.
ControlInScreenshot ==
    Intersect(ecall.control, MkRegion(0, 0, ecall.screenshot.w, ecall.screenshot.h))

\* C13: after addTextTriggerBase on an enabled instance with a last
\* screenshot, no error was raised; the user-input list is what it was when
\* the control does not intersect the screenshot, and otherwise it is the old
\* list followed by one text trigger whose region is the intersection.
C13_TextTriggerIntersection ==
    TriggerCalled("addTextTriggerBase")
    => /\ eout.kind = "returned"
       /\ IF ControlInScreenshot.width = 0 /\ ControlInScreenshot.height = 0
          THEN userInputs = ecall.inputs
          ELSE /\ Len(userInputs) = Len(ecall.inputs) + 1
               /\ SubSeq(userInputs, 1, Len(ecall.inputs)) = ecall.inputs
               /\ userInputs[Len(userInputs)].type = "Text"
               /\ userInputs[Len(userInputs)].control = ControlInScreenshot

\* C13 happens: a control outside the screenshot left a list alone that holds
\* the text trigger of a control lying across the screenshot's corner,
\* recorded with the part inside.
C13_Witness ==
    /\ TriggerCalled("addTextTriggerBase")
    /\ ControlInScreenshot = EmptyRegion
    /\ Len(userInputs) = 1
    /\ userInputs[1].type = "Text"
    /\ userInputs[1].control = MkRegion(ImageWidth - 2, ImageHeight - 2, 2, 2)

\* C14: after addMouseTriggerBase on an enabled instance with a last
\* screenshot, when the control does not intersect the screenshot (and the
\* cursor lookup raised nothing) the user-input list has kept its length and
\* no error was raised.
C14_EmptyIntersectionAddsNoMouseTrigger ==
    (/\ TriggerCalled("addMouseTriggerBase")
     /\ ecall.lookup = "ok"
     /\ ControlInScreenshot.width = 0 /\ ControlInScreenshot.height = 0)
    => /\ Len(userInputs) = Len(ecall.inputs)
       /\ eout.kind = "returned"

\* C15: after addMouseTriggerBase on an enabled instance with a last
\* screenshot, an OutOfBoundsError of the cursor lookup was caught (the call
\* returned) and any other error of the lookup was thrown to the caller; in
\* both cases the user-input list is what it was.
C15_LookupErrors ==
    TriggerCalled("addMouseTriggerBase")
    => /\ ecall.lookup = "OutOfBoundsError"
          => eout.kind = "returned" /\ userInputs = ecall.inputs
       /\ ecall.lookup = "Error"
          => eout.kind = "threw" /\ eout.value = "Error" /\ userInputs = ecall.inputs

\* C15 happens: an OutOfBoundsError was swallowed and the list still holds
\* the one trigger it held before.
C15_Witness ==
    /\ TriggerCalled("addMouseTriggerBase")
    /\ ecall.lookup = "OutOfBoundsError"
    /\ eout.kind = "returned"
    /\ Len(userInputs) = 1

\* C17: openBase, checkWindowBase, close and abortIfNotClosed called while
\* isDisabled is true (set by the constructor or by setIsDisabled) have
\* returned at once with a resolved promise and without a call of the server
\* connector or the capture collaborator; checkWindowBase resolved with a
\* MatchResult that is as expected, close with an empty TestResults.
C17_DisabledIsNoOp ==
    (ecall.op \in {"openBase", "checkWindowBase", "close", "abortIfNotClosed"} /\ ecall.disabled)
    => /\ epc = "idle"
       /\ eout.kind = "resolved"
       /\ srv = <<>>
       /\ ecall.op = "checkWindowBase" => eout.value = "MatchResult" /\ eout.asExpected
       /\ ecall.op = "close" => eout.value = "TestResults" /\ eout.results = EmptyResults

\* close was called on an enabled instance with an open test and a running
\* server session, and the server has answered stopSession.
CloseAnswered ==
    /\ ecall.op = "close"
    /\ ecall.wasOpen /\ ecall.session # "none" /\ ~ecall.disabled
    /\ epc = "idle"
    /\ eout.value # "TransportError"

\* C18: when the server answered the stopSession of a close(throwEx) with
\* status Unresolved or Failed, close rejected if and only if throwEx: with a
\* NewTestError (unresolved, new session), a DiffsFoundError (unresolved,
\* existing session) or a TestFailedError (failed); otherwise, and always for
\* status Passed, it resolved with the server's results.
C18_CloseRejectsIffThrowEx ==
    CloseAnswered
    => LET st == eout.results.status IN
       /\ st \in {"Passed", "Unresolved", "Failed"}
       /\ eout.kind \in {"resolved", "rejected"}
       /\ st \in {"Unresolved", "Failed"} => (eout.kind = "rejected" <=> ecall.throwEx)
       /\ st = "Passed" => eout.kind = "resolved"
       /\ eout.kind = "resolved" => eout.value = "TestResults"
       /\ eout.kind = "rejected"
          => eout.value = (IF st = "Failed" THEN "TestFailedError"
                           ELSE IF ecall.session = "new" THEN "NewTestError"
                           ELSE "DiffsFoundError")

\* C18 happens: close(true) on an existing test that ended unresolved was
\* rejected with a DiffsFoundError.
C18_Witness ==
    /\ CloseAnswered
    /\ ecall.throwEx
    /\ ecall.session = "existing"
    /\ eout.results.status = "Unresolved"
    /\ eout.kind = "rejected"
    /\ eout.value = "DiffsFoundError"

\* C19: close on an enabled instance with an open test for which no server
\* session was started has made no stopSession call and resolved with an
\* empty TestResults.
C19_CloseWithoutSession ==
    (ecall.op = "close" /\ ecall.wasOpen /\ ecall.session = "none" /\ ~ecall.disabled)
    => /\ epc = "idle"
       /\ \A k \in 1..Len(srv) : srv[k].call # "stopSession"
       /\ eout.kind = "resolved"
       /\ eout.value = "TestResults"
       /\ eout.results = EmptyResults

C16_LocationImmutable ==
    /\ locCall.op \in {"offset", "offsetByLocation", "scale"}
       => loc.x = locCall.x /\ loc.y = locCall.y
    /\ locCall.op \in {"offset", "offsetByLocation"}
       => locRes.x = locCall.x + locCall.a /\ locRes.y = locCall.y + locCall.b
    /\ locCall.op = "scale"
       => /\ locRes.x * locCall.b >= locCall.x * locCall.a
          /\ (locRes.x - 1) * locCall.b < locCall.x * locCall.a
          /\ locRes.y * locCall.b >= locCall.y * locCall.a
          /\ (locRes.y - 1) * locCall.b < locCall.y * locCall.a

\* C16 happens: (1, -1) scaled by 3/2 gave (2, -1) and is still (1, -1).
C16_Witness ==
    /\ locCall = [op |-> "scale", a |-> 3, b |-> 2, x |-> 1, y |-> -1]
    /\ loc = MkLocation(1, -1)
    /\ locRes = MkLocation(2, -1)

\* openBase was called on an enabled instance whose test was open.
OpenedWhileOpen ==
    /\ ecall.op = "openBase"
    /\ ecall.wasOpen /\ ~ecall.disabled

\* C21 (state): such an openBase leaves the instance not open and starts no
\* session; a running server session is stopped as aborted and not saved;
\* unless that server call failed, the open has rejected with "A test is
\* already running" and the session and its task are gone.
C21_State ==
    OpenedWhileOpen
    => /\ ~eyes.isOpen
       /\ srv = IF ecall.session = "none" THEN <<>>
                ELSE <<[call |-> "stopSession", isAborted |-> TRUE, save |-> FALSE]>>
       /\ (epc = "idle" /\ eout.value # "TransportError")
          => /\ eout.kind = "rejected"
             /\ eout.value = "A test is already running"
             /\ eyes.runningSession = "none"
             /\ ~eyes.matchWindowTask

\* C21 (step): the openBase called next on the instance, still enabled, is
\* not turned down: it starts a session or it resolves with the test open.
C21_Step ==
    (/\ OpenedWhileOpen /\ epc = "idle" /\ ~eyes.isDisabled
     /\ ops' = ops + 1 /\ ecall'.op = "openBase")
    => \/ epc' = "starting"
       \/ eyes'.isOpen /\ eout'.kind = "resolved"

\* C21: calling openBase while a test is open aborts the running test (the
\* server session is stopped as aborted), rejects the open with "A test is
\* already running" and leaves the instance not open, so that the next
\* openBase goes through.
C21_OpenWhileOpenAborts == []C21_State /\ [][C21_Step]_vars

\* C21 happens: an openBase on an open test with a new server session has
\* rejected after stopSession, and another operation can follow.
C21_Witness ==
    /\ OpenedWhileOpen
    /\ ecall.session = "new"
    /\ epc = "idle"
    /\ eout.value = "A test is already running"
    /\ Len(srv) = 1
    /\ ops < MaxOps

\* checkWindowBase was called on an enabled instance with an open test and
\* the task's matchWindow has resolved (its last verdict is matchResult).
CheckCompleted ==
    /\ ecall.op = "checkWindowBase"
    /\ ecall.wasOpen /\ ~ecall.disabled
    /\ epc = "idle"
    /\ eout.value # "TransportError"

\* C28: a completed check whose final verdict is a mismatch rejects with a
\* DiffsFoundError when failure reports are IMMEDIATE and resolves with the
\* mismatching MatchResult when they are ON_CLOSE; a check whose verdict is
\* asExpected resolves.
C28_ImmediateMismatchRejects ==
    CheckCompleted
    => /\ (~matchResult.asExpected /\ eyes.failureReports = "IMMEDIATE")
          => eout.kind = "rejected" /\ eout.value = "DiffsFoundError"
       /\ (~matchResult.asExpected /\ eyes.failureReports = "ON_CLOSE")
          => eout.kind = "resolved" /\ eout.value = "MatchResult" /\ ~eout.asExpected
       /\ matchResult.asExpected
          => eout.kind = "resolved" /\ eout.value = "MatchResult" /\ eout.asExpected

\* checkWindowBase has handed its check to the task's matchWindow.
CheckHanded ==
    /\ ecall.op = "checkWindowBase"
    /\ epc = "matching"

\* C29 (state): the check handed to the task is run-once if and only if the
\* server reported the running session as new or an earlier check of that
\* session ended with a mismatch.
C29_State ==
    CheckHanded => (sess.runOnce <=> (eyes.runningSession = "new" \/ sess.mismatch))

\* C29 (step): the run-once flag of the instance goes back to false only
\* when startSession answers.
C29_Step ==
    (eyes.shouldMatchWindowRunOnceOnTimeout /\ ~eyes'.shouldMatchWindowRunOnceOnTimeout)
    => epc = "starting" /\ eyes'.runningSession = "existing"

\* C29: within a session a check is run-once if and only if the session is
\* new or an earlier check of it mismatched; after a mismatch every later
\* check of the session is run-once, and the flag is reset only when a new
\* server session is started.
C29_RunOnceIffNewOrMismatched == []C29_State /\ [][C29_Step]_vars

\* C29 happens: a check of a session the server knows is handed over in
\* run-once mode, an earlier check of the session having mismatched.
C29_Witness ==
    /\ CheckHanded
    /\ eyes.runningSession = "existing"
    /\ sess.mismatch
    /\ sess.runOnce

C24_LoopParametersUnchanged ==
    \A i \in Invs :
        (Active(i) /\ loop[i] # NoLoop)
        => /\ loop[i].checkSettings = Obj("CheckSettings")
           /\ loop[i].imageMatchSettings = Obj("ImageMatchSettings")
           /\ loop[i].retryTimeout = Num(args[i].retryTimeout)
           /\ loop[i].start = Num(retryStart[i])
           /\ loop[i].retry.k = "number"
           /\ loop[i].retry.v >= 0 /\ loop[i].retry.v <= now - retryStart[i]

\* C25: when an invocation with ignoreMismatch = false has resolved, the
\* retained screenshot is the one captured by the attempt whose verdict is
\* returned if that attempt captured one, whatever was retained before, and
\* otherwise the one retained before the invocation.
C25_RetainsScreenshotOfReturnedVerdict ==
    \A i \in Invs :
        (pc[i] = "resolved" /\ ~args[i].ignoreMismatch)
        => /\ outcome[i].result.n = Count(log[i], "capture")
           /\ IF att[i].buffer # "none"
              THEN /\ lastScreenshot.call = outcome[i].result.call
                   /\ lastScreenshot.n = outcome[i].result.n
              ELSE lastScreenshot = pre[i].lastScreenshot

\* C25 happens: the final attempt, made after a mismatching polling attempt,
\* captured a screenshot that replaced the one retained before.
C25_Witness ==
    \E i \in Invs :
        /\ pc[i] = "resolved" /\ ~args[i].ignoreMismatch
        /\ att[i].ph = "final" /\ att[i].buffer # "none"
        /\ IsScreenshot(pre[i].lastScreenshot)
        /\ lastScreenshot # pre[i].lastScreenshot
        /\ lastScreenshot.n = 2

\* C26: once an attempt of an invocation has failed (capture, region
\* resolution or match request), the invocation rejects, and the retained
\* screenshot and its bounds are what they were before the invocation.
C26_RejectionKeepsTaskState ==
    \A i \in Invs :
        (Pos(i, "fail") # {} \/ pc[i] = "rejected")
        => /\ pc[i] = "rejected"
           /\ lastScreenshot = pre[i].lastScreenshot
           /\ lastScreenshotBounds = pre[i].lastScreenshotBounds

\* C26 happens: an invocation that had captured a screenshot rejected in its
\* second attempt, and the screenshot of an earlier invocation is retained.
C26_Witness ==
    \E i \in Invs :
        /\ pc[i] = "rejected"
        /\ Count(log[i], "capture") = 2
        /\ IsScreenshot(held[i])
        /\ IsScreenshot(lastScreenshot)
        /\ lastScreenshot.call < args[i].call

\* The getRegion calls a performMatch call has to make: one for each ignore
\* container, then one for each floating container, in list order, each
\* with the screenshot of the attempt.
RegionCallsDue ==
    [k \in 1..(pm.ignore + pm.floating) |->
        IF k <= pm.ignore
        THEN [kind |-> "ignore", k |-> k, screenshot |-> pm.screenshot]
        ELSE [kind |-> "floating", k |-> k - pm.ignore, screenshot |-> pm.screenshot]]

TriggerWithoutScreenshot ==
    /\ ecall.op \in {"addTextTriggerBase", "addMouseTriggerBase"}
    /\ eyes.initialised
    /\ ~eyes.matchWindowTask \/ ~IsScreenshot(ecall.screenshot)

C32_CursorTranslatedByControl ==
    (TriggerCalled("addMouseTriggerBase") /\ ecall.lookup # "none")
    => LET translated == MkLocation(ecall.cursor.x + ecall.control.left,
                                    ecall.cursor.y + ecall.control.top)
       IN /\ ecall.looked = translated
          /\ (/\ ecall.lookup = "ok"
              /\ ControlInScreenshot # EmptyRegion
              /\ Len(userInputs) = Len(ecall.inputs) + 1)
             => userInputs[Len(userInputs)].location =
                   MkLocation(translated.x - ControlInScreenshot.left,
                              translated.y - ControlInScreenshot.top)

\* C33: once the promise of close or abortIfNotClosed has settled, resolved
\* or rejected, on an instance disabled or not, the instance is not open and
\* has no running session and no match task (so the next openBase does not
\* find a test running).
C33_ClosedAfterCloseOrAbort ==
    (/\ ecall.op \in {"close", "abortIfNotClosed"}
     /\ epc = "idle"
     /\ eout.kind \in {"resolved", "rejected"})
    => /\ ~eyes.isOpen
       /\ eyes.runningSession = "none"
       /\ ~eyes.matchWindowTask

C35_OwnVerdict ==
    \A i \in Invs :
        /\ pc[i] \in {"loopCheck", "afterLoop", "finish"}
           => /\ matchResult.call = args[i].call
              /\ matchResult.n = Count(log[i], "verdict")
        /\ pc[i] = "resolved"
           => /\ outcome[i].result.call = args[i].call
              /\ outcome[i].result.n = Count(log[i], "verdict")

====
